---- MODULE Spec2Model ----
(***************************************************************************)
(* Model of the data pipeline of the Mangaroa analysis front-end:          *)
(*   - the CSV normalizers (processMangaroaData, processGLADData,          *)
(*     processIOClassData, processJRCCoverData, processJRCTypeData),       *)
(*   - the coordinate -> pixel id index of processMangaroaData,            *)
(*   - the view derivation processVisualizationData,                       *)
(*   - the asynchronous loadDataset of the two visualizer components.      *)
(*                                                                         *)
(* Numbers.  A JavaScript number is modelled as a record [k, v]: k = "num" *)
(* with an integer v, or k = "NaN".  Coordinates are integers in units of  *)
(* 1e-7 degree, one digit more than the 6 decimals toFixed(6) keeps, so    *)
(* that rounding is observable.  A raw CSV field is k = "num" (PapaParse   *)
(* dynamicTyping produced a number) or k = "text" (anything parseFloat /   *)
(* parseInt cannot read).                                                  *)
(***************************************************************************)
EXTENDS Integers, Sequences, FiniteSets, TLC

VARIABLES
    \* ---- component state (useState) ----
    selectedDataset,    \* selected dataset key
    canopyData,         \* the loaded record set (canopyData / data)
    visualizationMode,  \* selected visualization mode
    selectedMetric,     \* selected metric (CanopyCoverVisualizer)
    selectedYear,       \* selectedYear[0]
    isLoaded,           \* the map has fired 'load'
    loading,            \* the loading flag
    dataStats,          \* dataStats (CanopyCoverVisualizer), null at first
    \* ---- environment ----
    component,          \* which visualizer component is mounted
    rows,               \* parsed.data of the dataset file being normalized
    phase,              \* "parsed" -> "loaded" for one load taken alone, else "app"
    view,               \* the features last handed to the map source
    inflight,           \* the loadDataset calls awaiting their fetch
    effectDue,          \* [selectedDataset, isLoaded] changed since the effects last ran
    nStarted,           \* number of loadDataset calls made so far
    lastOutcome,        \* how the fetch of the last completed load ended
    \* ---- correlation panel (useState) ----
    selectedYearForCorrelation,     \* year of the correlation panel
    selectedMetricsForCorrelation,  \* [x metric, y metric] of the correlation panel
    \* ---- GLAD analysis ----
    gladMasks           \* the last result of createGLADBinaryMasks, [] at first

pvars == <<selectedDataset, rows, phase, canopyData, visualizationMode, selectedMetric,
           selectedYear, view>>

lvars == <<isLoaded, loading, dataStats, component, inflight, effectDue, nStarted,
           lastOutcome>>

cvars == <<selectedYearForCorrelation, selectedMetricsForCorrelation>>

mvars == <<gladMasks>>

vars == <<pvars, lvars, cvars, mvars>>

(***************************************************************************)
(* Bounds                                                                  *)
(***************************************************************************)
MaxRows == 3

(***************************************************************************)
(* Program constants                                                       *)
(***************************************************************************)
DatasetKeys == {"mangaroa", "glad", "io_class", "jrc_cover", "jrc_type"}

DatasetType(d) ==
    CASE d = "mangaroa" -> "time_series"
      [] d = "glad" -> "forest_change"
      [] d = "io_class" -> "classification"
      [] OTHER -> "binary"

MinYear == 2013
MaxYear == 2024
BaselineYear == 2013
NoData == 255

IOYears == <<2017, 2018, 2019, 2020, 2021, 2022, 2023>>

(***************************************************************************)
(* JavaScript numbers                                                      *)
(***************************************************************************)
Num(v) == [k |-> "num", v |-> v]
NaN == [k |-> "NaN", v |-> 0]
Text == [k |-> "text", v |-> 0]
\* the number Infinity, and a raw field that reads as it ("Infinity", "1e999")
Infinity == [k |-> "Infinity", v |-> 0]
InfText == [k |-> "inftext", v |-> 0]

isNaN(n) == n.k = "NaN"

\* parseFloat of a raw field: a number stays itself, "Infinity" reads as
\* Infinity, anything else is NaN
parseFloat(f) ==
    IF f.k = "num" THEN Num(f.v) ELSE IF f.k = "inftext" THEN Infinity ELSE NaN

\* parseInt of a raw field (the raw integers of the model have no fraction;
\* parseInt of "Infinity" or of the number Infinity is NaN)
parseInt(f) == IF f.k = "num" THEN Num(f.v) ELSE NaN

\* n === c for a parsed number n and an integer literal c
StrictEq(n, c) == n.k = "num" /\ n.v = c

\* `parseFloat(f) || 0`: NaN (and 0) become 0
OrZero(n) == IF n.k = "num" THEN n.v ELSE 0

Abs(i) == IF i < 0 THEN -i ELSE i

\* Number.prototype.toFixed(6) of a coordinate given in 1e-7 units: the sign
\* of the number, then its magnitude rounded to the nearest 1e-6 (the larger
\* candidate on a tie).  The text "-0.000000" of a negative number that
\* rounds to zero differs from "0.000000"; NaN prints as "NaN" (mag = -1)
\* and Infinity as "Infinity" (mag = -2).
toFixed(n) ==
    IF n.k = "NaN" THEN [neg |-> FALSE, mag |-> -1]
    ELSE IF n.k = "Infinity" THEN [neg |-> FALSE, mag |-> -2]
    ELSE [neg |-> n.v < 0, mag |-> (Abs(n.v) + 5) \div 10]

\* `${row.x.toFixed(6)}_${row.y.toFixed(6)}`
coordKeyOnlyX(row) == <<toFixed(row.x)>>
coordKey(row) == <<toFixed(row.x), toFixed(row.y)>>

(***************************************************************************)
(* Array helpers                                                           *)
(***************************************************************************)
Range(s) == {s[i] : i \in DOMAIN s}

\* Array.prototype.find: the first element passing the test, or undefined
Undefined == [undefined |-> TRUE]

FindFirst(s, Test(_)) ==
    LET hits == SelectSeq(s, Test)
    IN IF hits = << >> THEN Undefined ELSE Head(hits)

(***************************************************************************)
(* processMangaroaData                                                     *)
(***************************************************************************)
\* parsed.data.map(...): one record per raw row, pixel_id = row index
MangaroaRecord(row, index) ==
    [ pixel_id     |-> index,
      x            |-> parseFloat(row.x),
      y            |-> parseFloat(row.y),
      year         |-> parseInt(row.year),
      canopy_cover |-> OrZero(parseFloat(row.canopy_cover)),
      tree_height  |-> OrZero(parseFloat(row.tree_height)),
      dataset      |-> "mangaroa" ]

\* .filter(row => !isNaN(row.x) && !isNaN(row.y) && !isNaN(row.year)
\*                && row.year >= 2013 && row.year <= 2024)
MangaroaValid(r) ==
    /\ ~isNaN(r.x)
    /\ ~isNaN(r.y)
    /\ ~isNaN(r.year)
    /\ r.year.v >= MinYear
    /\ r.year.v <= MaxYear

\* pixelMap.has / pixelMap.get on a Map kept as a set of [key, id] entries
MapHas(pixelMap, key) == \E e \in pixelMap : e.key = key
MapGet(pixelMap, key) == (CHOOSE e \in pixelMap : e.key = key).id

\* if (!pixelMap.has(coordKey)) pixelMap.set(coordKey, pixelCounter++)
PixelMapStepNoIncrement(st, key) ==
    IF MapHas(st.pixelMap, key) THEN st
    ELSE [ pixelMap     |-> st.pixelMap \cup {[key |-> key, id |-> st.pixelCounter]},
           pixelCounter |-> st.pixelCounter ]
PixelMapStep(st, key) ==
    IF MapHas(st.pixelMap, key) THEN st
    ELSE [ pixelMap     |-> st.pixelMap \cup {[key |-> key, id |-> st.pixelCounter]},
           pixelCounter |-> st.pixelCounter + 1 ]

\* processedData.forEach(row => { ...; row.pixel_id = pixelMap.get(coordKey) })
RECURSIVE AssignPixelIds(_, _, _)
AssignPixelIds(data, i, st) ==
    IF i > Len(data) THEN data
    ELSE LET key == coordKey(data[i])
             st2 == PixelMapStep(st, key)
         IN AssignPixelIds([data EXCEPT ![i].pixel_id = MapGet(st2.pixelMap, key)],
                           i + 1, st2)

\* const pixelMap = new Map(); let pixelCounter = 0;
NewPixelIndex == [pixelMap |-> {}, pixelCounter |-> 0]

processMangaroaData(raw) ==
    LET mapped == [i \in 1..Len(raw) |-> MangaroaRecord(raw[i], i - 1)]
        processedData == SelectSeq(mapped, MangaroaValid)
    IN AssignPixelIds(processedData, 1, NewPixelIndex)

(***************************************************************************)
(* processGLADData                                                         *)
(***************************************************************************)
\* a normalizer that adds 2000 to every lossyear, 0 included
GLADRecordLossAlways(row, index) ==
    [ pixel_id            |-> index,
      x                   |-> parseFloat(row.x),
      y                   |-> parseFloat(row.y),
      datamask            |-> parseInt(row.datamask),
      gain                |-> parseInt(row.gain),
      lossyear            |-> parseInt(row.lossyear),
      treecover2000       |-> parseInt(row.treecover2000),
      has_data            |-> StrictEq(parseInt(row.datamask), 1),
      has_forest_gain     |-> StrictEq(parseInt(row.gain), 1),
      forest_loss_year    |-> Num(2000 + parseInt(row.lossyear).v),
      baseline_tree_cover |-> parseInt(row.treecover2000),
      dataset             |-> "glad" ]

\* parsed.data.map(...): one record per raw row, pixel_id = row index
GLADRecord(row, index) ==
    [ pixel_id            |-> index,
      x                   |-> parseFloat(row.x),
      y                   |-> parseFloat(row.y),
      datamask            |-> parseInt(row.datamask),
      gain                |-> parseInt(row.gain),
      lossyear            |-> parseInt(row.lossyear),
      treecover2000       |-> parseInt(row.treecover2000),
      has_data            |-> StrictEq(parseInt(row.datamask), 1),
      has_forest_gain     |-> StrictEq(parseInt(row.gain), 1),
      forest_loss_year    |-> IF parseInt(row.lossyear).k = "num" /\ parseInt(row.lossyear).v > 0
                              THEN Num(2000 + parseInt(row.lossyear).v)
                              ELSE [k |-> "null", v |-> 0],
      baseline_tree_cover |-> parseInt(row.treecover2000),
      dataset             |-> "glad" ]

\* .filter(row => !isNaN(row.x) && !isNaN(row.y) && row.has_data)
HasDataValid(r) == ~isNaN(r.x) /\ ~isNaN(r.y) /\ r.has_data

processGLADData(raw) ==
    SelectSeq([i \in 1..Len(raw) |-> GLADRecord(raw[i], i - 1)], HasDataValid)

(***************************************************************************)
(* processIOClassData (CanopyCoverVisualizer: one record per row)          *)
(***************************************************************************)
\* row.classes[j] is the raw class_<IOYears[j]> field
IOClassRecord(row, index) ==
    [ pixel_id       |-> index,
      x              |-> parseFloat(row.x),
      y              |-> parseFloat(row.y),
      classes        |-> [j \in DOMAIN IOYears |-> parseInt(row.classes[j])],
      has_data       |-> ~StrictEq(parseInt(row.classes[1]), NoData),
      dominant_class |-> parseInt(row.classes[1]),
      dataset        |-> "io_class" ]

processIOClassData(raw) ==
    SelectSeq([i \in 1..Len(raw) |-> IOClassRecord(raw[i], i - 1)], HasDataValid)

(***************************************************************************)
(* processJRCCoverData / processJRCTypeData (CanopyCoverVisualizer)        *)
(***************************************************************************)
\* row.field is forest_cover_2020, resp. forest_type_2020
JRCRecord(row, index, key) ==
    [ pixel_id   |-> index,
      x          |-> parseFloat(row.x),
      y          |-> parseFloat(row.y),
      field_2020 |-> parseInt(row.field),
      has_data   |-> ~StrictEq(parseInt(row.field), NoData),
      is_forest  |-> StrictEq(parseInt(row.field), 0),
      dataset    |-> key ]

processJRCCoverData(raw) ==
    SelectSeq([i \in 1..Len(raw) |-> JRCRecord(raw[i], i - 1, "jrc_cover")], HasDataValid)

processJRCTypeData(raw) ==
    SelectSeq([i \in 1..Len(raw) |-> JRCRecord(raw[i], i - 1, "jrc_type")], HasDataValid)

\* the switch of loadDataset: which normalizer a dataset key runs
processDataset(key, raw) ==
    CASE key = "mangaroa" -> processMangaroaData(raw)
      [] key = "glad" -> processGLADData(raw)
      [] key = "io_class" -> processIOClassData(raw)
      [] key = "jrc_cover" -> processJRCCoverData(raw)
      [] key = "jrc_type" -> processJRCTypeData(raw)

(***************************************************************************)
(* processVisualizationData (CanopyCoverVisualizer)                        *)
(***************************************************************************)
UndefinedVal == [k |-> "undefined", v |-> 0]

\* point[metricKey]: the metric fields a Mangaroa record has are numbers,
\* any other key reads as undefined; so does `baseline?.[metricKey]` when
\* find() returned undefined
MetricOf(d, metricKey) ==
    IF d = Undefined THEN UndefinedVal
    ELSE IF metricKey = "canopy_cover" THEN Num(d.canopy_cover)
    ELSE IF metricKey = "tree_height" THEN Num(d.tree_height)
    ELSE UndefinedVal

\* a || 0
OrZeroVal(a) == IF a.k = "num" THEN a ELSE Num(0)

\* a - b
JSSub(a, b) == IF a.k = "num" /\ b.k = "num" THEN Num(a.v - b.v) ELSE NaN

\* a year test every record passes
HasYearAny(d, yr) == TRUE

\* 'year' in d && d.year === yr
HasYear(d, yr) == "year" \in DOMAIN d /\ StrictEq(d.year, yr)

\* const baseline = baseline2013.find(b => b.pixel_id === current.pixel_id)
FindBaselineAny(baseline2013, current) ==
    FindFirst(baseline2013, LAMBDA b : TRUE)
FindBaseline(baseline2013, current) ==
    FindFirst(baseline2013, LAMBDA b : b.pixel_id = current.pixel_id)

\* { ...current, change_value: current[m] - (baseline?.[m] || 0),
\*               baseline_value: baseline?.[m] || 0 }
ChangeEntry(current, baseline, metricKey) ==
    [ pixel_id       |-> current.pixel_id,
      x              |-> current.x,
      y              |-> current.y,
      year           |-> current.year,
      canopy_cover   |-> current.canopy_cover,
      tree_height    |-> current.tree_height,
      dataset        |-> current.dataset,
      change_value   |-> JSSub(MetricOf(current, metricKey),
                               OrZeroVal(MetricOf(baseline, metricKey))),
      baseline_value |-> OrZeroVal(MetricOf(baseline, metricKey)) ]

ChangeFromBaseline(data, metricKey, currentYear) ==
    LET baseline2013 == SelectSeq(data, LAMBDA d : HasYear(d, BaselineYear))
        currentYearData == SelectSeq(data, LAMBDA d : HasYear(d, currentYear))
    IN [i \in 1..Len(currentYearData) |->
           ChangeEntry(currentYearData[i],
                       FindBaseline(baseline2013, currentYearData[i]),
                       metricKey)]

RECURSIVE SumSeq(_)
SumSeq(s) == IF s = << >> THEN 0 ELSE Head(s) + SumSeq(Tail(s))

\* a slope whose numerator lacks the factor n
TrendSlopeNoN(years, values) ==
    LET n == Len(years)
        sumX == SumSeq(years)
        sumY == SumSeq(values)
        sumXY == SumSeq([i \in 1..n |-> years[i] * values[i]])
        sumXX == SumSeq([i \in 1..n |-> years[i] * years[i]])
        den == n * sumXX - sumX * sumX
    IN IF den = 0 THEN [k |-> "NaN", num |-> 0, den |-> 0]
       ELSE [k |-> "ratio", num |-> sumXY - sumX * sumY, den |-> den]

\* the slope n*sumXY - sumX*sumY over n*sumXX - sumX*sumX as an exact ratio;
\* 0/0 is NaN, and so is any sum over a value that is not a number
TrendSlope(years, values) ==
    LET n == Len(years)
        sumX == SumSeq(years)
        sumY == SumSeq(values)
        sumXY == SumSeq([i \in 1..n |-> years[i] * values[i]])
        sumXX == SumSeq([i \in 1..n |-> years[i] * years[i]])
        num == n * sumXY - sumX * sumY
        den == n * sumXX - sumX * sumX
    IN IF den = 0 THEN [k |-> "NaN", num |-> 0, den |-> 0]
       ELSE [k |-> "ratio", num |-> num, den |-> den]

\* thresholds that include 0.5 and -0.5
TrendDirectionInclusive(slope) ==
    IF slope.k = "ratio" /\ 2 * slope.num >= slope.den THEN "increasing"
    ELSE IF slope.k = "ratio" /\ 2 * slope.num <= -slope.den THEN "decreasing"
    ELSE "stable"

\* slope > 0.5 ? 'increasing' : slope < -0.5 ? 'decreasing' : 'stable'
\* (the divisor n*sumXX - sumX^2 is never negative)
TrendDirection(slope) ==
    IF slope.k = "ratio" /\ 2 * slope.num > slope.den THEN "increasing"
    ELSE IF slope.k = "ratio" /\ 2 * slope.num < -slope.den THEN "decreasing"
    ELSE "stable"

\* the entry built for one pixel id: null when it has fewer than 2 records
TrendEntry(data, pid, metricKey) ==
    LET group == SelectSeq(data, LAMBDA d : d.pixel_id = pid)
        years == [i \in 1..Len(group) |-> group[i].year.v]
        vals == [i \in 1..Len(group) |-> MetricOf(group[i], metricKey)]
        numeric == \A i \in 1..Len(group) : vals[i].k = "num"
        values == [i \in 1..Len(group) |-> vals[i].v]
        slope == IF numeric THEN TrendSlope(years, values)
                 ELSE [k |-> "NaN", num |-> 0, den |-> 0]
    IN [ pixel_id        |-> pid,
         x               |-> group[1].x,
         y               |-> group[1].y,
         n               |-> Len(group),
         years           |-> years,
         values          |-> vals,
         trend_slope     |-> slope,
         avg_value       |-> IF numeric THEN [k |-> "ratio", num |-> SumSeq(values), den |-> Len(group)]
                             ELSE [k |-> "NaN", num |-> 0, den |-> 0],
         trend_direction |-> TrendDirection(slope) ]

\* Object.values(pixelTrends): integer keys come out in ascending order
RECURSIVE SortedIds(_)
SortedIds(S) ==
    IF S = {} THEN << >>
    ELSE LET m == CHOOSE a \in S : \A b \in S : a <= b
         IN <<m>> \o SortedIds(S \ {m})

\* the same without the `n < 2 -> null` filter
TrendAnalysisNoDrop(data, metricKey) ==
    LET ids == SortedIds({data[i].pixel_id : i \in DOMAIN data})
    IN [j \in 1..Len(ids) |-> TrendEntry(data, ids[j], metricKey)]

TrendAnalysis(data, metricKey) ==
    LET ids == SortedIds({data[i].pixel_id : i \in DOMAIN data})
        all == [j \in 1..Len(ids) |-> TrendEntry(data, ids[j], metricKey)]
    IN SelectSeq(all, LAMBDA t : t.n >= 2)

ArrayResult(entries) == [kind |-> "array", entries |-> entries]

processVisualizationData(data, datasetKey, mode, metricKey, currentYear) ==
    IF Len(data) = 0 THEN ArrayResult(<< >>)
    ELSE IF mode = "change_from_baseline" /\ datasetKey = "mangaroa"
         THEN ArrayResult(ChangeFromBaseline(data, metricKey, currentYear))
    ELSE IF mode = "trend_analysis" /\ datasetKey = "mangaroa"
         THEN ArrayResult(TrendAnalysis(data, metricKey))
    ELSE IF mode \in {"change_from_baseline", "trend_analysis"}
         THEN ArrayResult(data)
    ELSE IF datasetKey = "mangaroa"
         THEN ArrayResult(SelectSeq(data, LAMBDA d : HasYear(d, currentYear)))
    ELSE ArrayResult(data)

(***************************************************************************)
(* Inputs: the rows a dataset file may hold                                *)
(***************************************************************************)
SeqsUpTo(S, n) == UNION {[1..m -> S] : m \in 0..n}

\* x in 1e-7 degree: text, -0.0000004, 0.0000004, 0.0000014
NormXs == {Text, Num(-4), Num(4), Num(14)}
\* y: -41.1486130 and -41.1486134 round to the same 6 decimals, -41.1486144 does not
NormYs == {Num(-411486130), Num(-411486134), Num(-411486144)}

IOClassPatterns ==
    { [j \in DOMAIN IOYears |-> Num(11)],
      [j \in DOMAIN IOYears |-> IF j = 1 THEN Num(NoData) ELSE Num(11)],
      [j \in DOMAIN IOYears |-> IF j = 2 THEN Num(NoData) ELSE Num(11)],
      [j \in DOMAIN IOYears |-> IF j = Len(IOYears) THEN Num(20) ELSE Num(11)] }

MangaroaRows(xs, ys, yrs, covers) ==
    [x : xs, y : ys, year : yrs, canopy_cover : covers, tree_height : {Num(7)}]

GLADRows(xs, ys) ==
    [x : xs, y : ys, datamask : {Num(1), Num(0), Num(NoData)}, gain : {Num(1)},
     lossyear : {Num(0)}, treecover2000 : {Num(50)}]

IORows(xs, ys) == [x : xs, y : ys, classes : IOClassPatterns]

JRCRows(xs, ys) == [x : xs, y : ys, field : {Num(0), Num(1), Num(NoData)}]

\* rows for the normalizers: rounding, sign and text cases of the coordinates
NormRows(d) ==
    CASE d = "mangaroa" ->
             MangaroaRows(NormXs, NormYs, {Num(2013), Num(2024)}, {Num(10)})
      [] d = "glad" -> GLADRows({Text, Num(4), Num(14)}, {Num(-411486130)})
      [] d = "io_class" -> IORows({Num(4), Num(14)}, {Num(-411486130)})
      [] OTHER -> JRCRows({Num(4), Num(14)}, {Num(-411486130)})

\* rows for the view derivation: two pixels, baseline and last year, three values
DeriveRows(d) ==
    CASE d = "mangaroa" ->
             MangaroaRows({Num(4), Num(14)}, {Num(-411486130)},
                          {Num(2013), Num(2024)}, {Num(0), Num(10), Num(30)})
      [] d = "glad" -> GLADRows({Num(4)}, {Num(-411486130)})
      [] d = "io_class" -> IORows({Num(4)}, {Num(-411486130)})
      [] OTHER -> JRCRows({Num(4)}, {Num(-411486130)})

(***************************************************************************)
(* One dataset load followed by view derivations                           *)
(***************************************************************************)
\* useEffect on selectedDataset: the mode and metric a dataset type starts with
ModeOfType(t) ==
    CASE t = "time_series" -> "current_year"
      [] t = "forest_change" -> "forest_change"
      [] t = "classification" -> "classification"
      [] OTHER -> "binary_forest"

MetricOfType(t) ==
    CASE t = "time_series" -> "canopy_cover"
      [] t = "forest_change" -> "forest_change"
      [] t = "classification" -> "land_class"
      [] OTHER -> "forest_binary"

NoView == [kind |-> "none", entries |-> << >>]

\* useState<DataStats | null>(null)
NoStats == [kind |-> "null"]

\* the map update effect: it returns early on an empty record set and
\* otherwise replaces the map source by the derived features
UpdateMap(data, d, mode, metricKey, yr, old) ==
    IF Len(data) = 0 THEN old
    ELSE processVisualizationData(data, d, mode, metricKey, yr)

PipelineInit(d, raw) ==
    /\ selectedDataset = d
    /\ rows = raw
    /\ phase = "parsed"
    /\ canopyData = << >>
    /\ visualizationMode = ModeOfType(DatasetType(d))
    /\ selectedMetric = MetricOfType(DatasetType(d))
    /\ selectedYear = MaxYear
    /\ view = NoView
    /\ component = "CanopyCoverVisualizer"
    /\ isLoaded = TRUE
    /\ loading = FALSE
    /\ dataStats = NoStats
    /\ inflight = {}
    /\ effectDue = FALSE
    /\ nStarted = 0
    /\ lastOutcome = "none"
    /\ selectedYearForCorrelation = MaxYear
    /\ selectedMetricsForCorrelation = <<"canopy_cover", "tree_height">>
    /\ gladMasks = << >>

InitNorm == \E d \in DatasetKeys : \E raw \in SeqsUpTo(NormRows(d), MaxRows) :
                PipelineInit(d, raw)

InitDerive == \E d \in DatasetKeys : \E raw \in SeqsUpTo(DeriveRows(d), MaxRows) :
                  PipelineInit(d, raw)

\* loadDataset once the rows are parsed: setCanopyData(data), then the map
\* update effect
Loaded(data) ==
    /\ phase = "parsed"
    /\ canopyData' = data
    /\ phase' = "loaded"
    /\ view' = UpdateMap(data, selectedDataset, visualizationMode, selectedMetric,
                         selectedYear, view)
    /\ UNCHANGED <<selectedDataset, rows, visualizationMode, selectedMetric, selectedYear>>
    /\ UNCHANGED <<lvars, cvars, mvars>>

LoadMangaroa == selectedDataset = "mangaroa" /\ Loaded(processMangaroaData(rows))
LoadGLAD == selectedDataset = "glad" /\ Loaded(processGLADData(rows))
LoadIOClass == selectedDataset = "io_class" /\ Loaded(processIOClassData(rows))
LoadJRCCover == selectedDataset = "jrc_cover" /\ Loaded(processJRCCoverData(rows))
LoadJRCType == selectedDataset = "jrc_type" /\ Loaded(processJRCTypeData(rows))

ModeChoices == {"current_year", "change_from_baseline", "trend_analysis"}
MetricChoices == {"canopy_cover", "tree_height", "forest_change"}
YearChoices == {BaselineYear, MaxYear}

\* a mode change whose derivation writes its entries into the record set
SetVisualizationModeInPlace ==
    /\ phase = "loaded"
    /\ \E m \in ModeChoices :
          /\ m # visualizationMode
          /\ visualizationMode' = m
          /\ view' = UpdateMap(canopyData, selectedDataset, m, selectedMetric, selectedYear, view)
    /\ canopyData' = view'.entries
    /\ UNCHANGED <<selectedDataset, rows, phase, selectedMetric, selectedYear>>
    /\ UNCHANGED <<lvars, cvars, mvars>>

\* the mode <select>: setVisualizationMode, then the map update effect
SetVisualizationMode ==
    /\ phase = "loaded"
    /\ \E m \in ModeChoices :
          /\ m # visualizationMode
          /\ visualizationMode' = m
          /\ view' = UpdateMap(canopyData, selectedDataset, m, selectedMetric, selectedYear, view)
    /\ UNCHANGED <<selectedDataset, rows, phase, canopyData, selectedMetric, selectedYear>>
    /\ UNCHANGED <<lvars, cvars, mvars>>

\* the metric <select>: setSelectedMetric, then the map update effect
SetSelectedMetric ==
    /\ phase = "loaded"
    /\ \E k \in MetricChoices :
          /\ k # selectedMetric
          /\ selectedMetric' = k
          /\ view' = UpdateMap(canopyData, selectedDataset, visualizationMode, k, selectedYear, view)
    /\ UNCHANGED <<selectedDataset, rows, phase, canopyData, visualizationMode, selectedYear>>
    /\ UNCHANGED <<lvars, cvars, mvars>>

\* the year slider: setSelectedYear, then the map update effect
SetSelectedYear ==
    /\ phase = "loaded"
    /\ \E yr \in YearChoices :
          /\ yr # selectedYear
          /\ selectedYear' = yr
          /\ view' = UpdateMap(canopyData, selectedDataset, visualizationMode, selectedMetric, yr, view)
    /\ UNCHANGED <<selectedDataset, rows, phase, canopyData, visualizationMode, selectedMetric>>
    /\ UNCHANGED <<lvars, cvars, mvars>>

NextNorm ==
    \/ LoadMangaroa
    \/ LoadGLAD
    \/ LoadIOClass
    \/ LoadJRCCover
    \/ LoadJRCType

NextDerive ==
    \/ NextNorm
    \/ SetVisualizationMode
    \/ SetSelectedMetric
    \/ SetSelectedYear

SpecNorm == InitNorm /\ [][NextNorm]_vars
SpecDerive == InitDerive /\ [][NextDerive]_vars

(***************************************************************************)
(* One Mangaroa load of a single pixel followed by view derivations: the   *)
(* files for the trend analysis                                            *)
(***************************************************************************)
\* one pixel, three consecutive years, three values
TrendRows ==
    MangaroaRows({Num(4)}, {Num(-411486130)}, {Num(2013), Num(2014), Num(2015)},
                 {Num(0), Num(1), Num(2)})

\* one pixel with the points (2013, 0), (2014, 1), ..., (2024, 11)
LineExample ==
    [i \in 1..(MaxYear - MinYear + 1) |->
        [x |-> Num(4), y |-> Num(-411486130), year |-> Num(MinYear + i - 1),
         canopy_cover |-> Num(i - 1), tree_height |-> Num(7)]]

InitTrend == \E raw \in SeqsUpTo(TrendRows, MaxRows) \cup {LineExample} :
                 PipelineInit("mangaroa", raw)

NextTrend ==
    \/ LoadMangaroa
    \/ SetVisualizationMode
    \/ SetSelectedMetric
    \/ SetSelectedYear

SpecTrend == InitTrend /\ [][NextTrend]_vars

(***************************************************************************)
(* The correlation panel: getMetricValue, calculateCorrelationData,        *)
(* calculateCorrelation and the qualitative band                           *)
(***************************************************************************)
\* a forest-change relabeling that tests the loss year before the gain flag
getMetricValueLossFirst(point, metric) ==
    IF metric = "canopy_cover"
    THEN (IF "canopy_cover" \in DOMAIN point THEN point.canopy_cover ELSE 0)
    ELSE IF metric = "tree_height"
    THEN (IF "tree_height" \in DOMAIN point THEN point.tree_height ELSE 0)
    ELSE IF metric = "forest_change"
    THEN (IF {"has_forest_gain", "forest_loss_year"} \subseteq DOMAIN point
          THEN (IF point.forest_loss_year.k # "null" THEN 0
                ELSE IF point.has_forest_gain THEN 2 ELSE 1)
          ELSE 1)
    ELSE IF metric = "forest_binary"
    THEN (IF "is_forest" \in DOMAIN point THEN (IF point.is_forest THEN 0 ELSE 1) ELSE 1)
    ELSE 0

\* getMetricValue(point, metric): a numeric field the record has, else 0;
\* 'forest_change' is has_forest_gain ? 2 : forest_loss_year ? 0 : 1 (a loss
\* year is null or 2001 and later, so it is truthy iff it is not null) and 1
\* for a record without these fields; 'forest_binary' is is_forest ? 0 : 1
\* and 1 for a record without the flag; 0 for any other metric
getMetricValue(point, metric) ==
    IF metric = "canopy_cover"
    THEN (IF "canopy_cover" \in DOMAIN point THEN point.canopy_cover ELSE 0)
    ELSE IF metric = "tree_height"
    THEN (IF "tree_height" \in DOMAIN point THEN point.tree_height ELSE 0)
    ELSE IF metric = "forest_change"
    THEN (IF {"has_forest_gain", "forest_loss_year"} \subseteq DOMAIN point
          THEN (IF point.has_forest_gain THEN 2
                ELSE IF point.forest_loss_year.k # "null" THEN 0 ELSE 1)
          ELSE 1)
    ELSE IF metric = "forest_binary"
    THEN (IF "is_forest" \in DOMAIN point THEN (IF point.is_forest THEN 0 ELSE 1) ELSE 1)
    ELSE 0

\* canopyData.filter(point => 'year' in point && point.year === year).map(...)
calculateCorrelationData(data, datasetKey, yr, metrics) ==
    IF Len(data) = 0 \/ datasetKey # "mangaroa" THEN << >>
    ELSE LET pts == SelectSeq(data, LAMBDA d : HasYear(d, yr))
         IN [i \in 1..Len(pts) |->
                [ x        |-> getMetricValue(pts[i], metrics[1]),
                  y        |-> getMetricValue(pts[i], metrics[2]),
                  pixel_id |-> pts[i].pixel_id ]]

\* a correlation coefficient num / sqrt(sq), kept exact: sq > 0
Quot(num, sq) == [k |-> "num", num |-> num, sq |-> sq]
CorrZero == Quot(0, 1)
CorrNaN == [k |-> "NaN", num |-> 0, sq |-> 0]

\* calculateCorrelation without the `denominator === 0` test: 0 / 0 is NaN
\* (the numerator is 0 whenever the denominator is)
calculateCorrelationNoGuard(data) ==
    IF Len(data) < 2 THEN CorrZero
    ELSE LET n == Len(data)
             sumX == SumSeq([i \in 1..n |-> data[i].x])
             sumY == SumSeq([i \in 1..n |-> data[i].y])
             sumXY == SumSeq([i \in 1..n |-> data[i].x * data[i].y])
             sumX2 == SumSeq([i \in 1..n |-> data[i].x * data[i].x])
             sumY2 == SumSeq([i \in 1..n |-> data[i].y * data[i].y])
             numerator == n * sumXY - sumX * sumY
             radicand == (n * sumX2 - sumX * sumX) * (n * sumY2 - sumY * sumY)
         IN IF radicand = 0 THEN CorrNaN ELSE Quot(numerator, radicand)

\* the slope of y on x in its place: the divisor is n * sumX2 - sumX^2 alone
calculateCorrelationAsSlope(data) ==
    IF Len(data) < 2 THEN CorrZero
    ELSE LET n == Len(data)
             sumX == SumSeq([i \in 1..n |-> data[i].x])
             sumY == SumSeq([i \in 1..n |-> data[i].y])
             sumXY == SumSeq([i \in 1..n |-> data[i].x * data[i].y])
             sumX2 == SumSeq([i \in 1..n |-> data[i].x * data[i].x])
             numerator == n * sumXY - sumX * sumY
             divisor == n * sumX2 - sumX * sumX
         IN IF divisor = 0 THEN CorrZero ELSE Quot(numerator, divisor * divisor)

\* calculateCorrelation(data)
calculateCorrelation(data) ==
    IF Len(data) < 2 THEN CorrZero
    ELSE LET n == Len(data)
             sumX == SumSeq([i \in 1..n |-> data[i].x])
             sumY == SumSeq([i \in 1..n |-> data[i].y])
             sumXY == SumSeq([i \in 1..n |-> data[i].x * data[i].y])
             sumX2 == SumSeq([i \in 1..n |-> data[i].x * data[i].x])
             sumY2 == SumSeq([i \in 1..n |-> data[i].y * data[i].y])
             numerator == n * sumXY - sumX * sumY
             radicand == (n * sumX2 - sumX * sumX) * (n * sumY2 - sumY * sumY)
         IN IF radicand = 0 THEN CorrZero ELSE Quot(numerator, radicand)

\* r > a / 10 for a coefficient r = num / sqrt(sq); false for NaN
Greater(r, a) ==
    /\ r.k = "num"
    /\ IF a >= 0 THEN r.num > 0 /\ 100 * r.num * r.num > a * a * r.sq
       ELSE r.num >= 0 \/ 100 * r.num * r.num < a * a * r.sq

\* the text under the coefficient: r > 0.7 ? ... : r > 0.3 ? ... : r > -0.3 ? ...
CorrelationBand(r) ==
    IF Greater(r, 7) THEN "Strong positive correlation"
    ELSE IF Greater(r, 3) THEN "Moderate positive correlation"
    ELSE IF Greater(r, -3) THEN "Weak correlation"
    ELSE IF Greater(r, -7) THEN "Moderate negative correlation"
    ELSE "Strong negative correlation"

\* what the panel renders from the current state
CorrelationData ==
    calculateCorrelationData(canopyData, selectedDataset, selectedYearForCorrelation,
                             selectedMetricsForCorrelation)
Correlation == calculateCorrelation(CorrelationData)

\* rows of the files for the correlation panel: two years, two values of
\* each of the two metrics
CorrRows ==
    [x : {Num(4)}, y : {Num(-411486130)}, year : {Num(BaselineYear), Num(MaxYear)},
     canopy_cover : {Num(1), Num(2)}, tree_height : {Num(1), Num(2)}]

\* a file of year 2024 holding one pixel for each given (canopy_cover,
\* tree_height) pair
CorrFile(pairs) ==
    [i \in 1..Len(pairs) |->
        [x |-> Num(4 + 10 * i), y |-> Num(-411486130), year |-> Num(MaxYear),
         canopy_cover |-> Num(pairs[i][1]), tree_height |-> Num(pairs[i][2])]]

\* files of four pixels: exact lines of coefficient 2 and -2, and files whose
\* coefficient is exactly 0.3, -0.3, 0.7, -0.7
CorrExamples ==
    { CorrFile(<< <<1, 2>>, <<2, 4>>, <<3, 6>>, <<4, 8>> >>),
      CorrFile(<< <<1, 8>>, <<2, 6>>, <<3, 4>>, <<4, 2>> >>),
      CorrFile(<< <<0, 0>>, <<1, 3>>, <<3, 4>>, <<4, 1>> >>),
      CorrFile(<< <<0, 4>>, <<1, 1>>, <<3, 0>>, <<4, 3>> >>),
      CorrFile(<< <<0, 0>>, <<1, 1>>, <<4, 7>>, <<7, 4>> >>),
      CorrFile(<< <<0, 7>>, <<1, 6>>, <<4, 0>>, <<7, 3>> >>) }

CorrMetricChoices == {"canopy_cover", "tree_height", "forest_change"}

InitCorr == \E raw \in SeqsUpTo(CorrRows, MaxRows) \cup CorrExamples :
                PipelineInit("mangaroa", raw)

\* the mode <select>: 'correlation' shows the correlation panel
SelectCorrelationMode ==
    /\ phase = "loaded"
    /\ visualizationMode # "correlation"
    /\ visualizationMode' = "correlation"
    /\ view' = UpdateMap(canopyData, selectedDataset, "correlation", selectedMetric,
                         selectedYear, view)
    /\ UNCHANGED <<selectedDataset, rows, phase, canopyData, selectedMetric, selectedYear>>
    /\ UNCHANGED <<lvars, cvars, mvars>>

\* the year <select> of the panel
SetSelectedYearForCorrelation ==
    /\ phase = "loaded"
    /\ visualizationMode = "correlation"
    /\ \E yr \in YearChoices :
          /\ yr # selectedYearForCorrelation
          /\ selectedYearForCorrelation' = yr
    /\ UNCHANGED <<pvars, lvars, selectedMetricsForCorrelation, mvars>>

\* the X-axis metric <select> of the panel
SetCorrelationMetricX ==
    /\ phase = "loaded"
    /\ visualizationMode = "correlation"
    /\ \E m \in CorrMetricChoices :
          /\ m # selectedMetricsForCorrelation[1]
          /\ selectedMetricsForCorrelation' = <<m, selectedMetricsForCorrelation[2]>>
    /\ UNCHANGED <<pvars, lvars, selectedYearForCorrelation, mvars>>

\* the Y-axis metric <select> of the panel
SetCorrelationMetricY ==
    /\ phase = "loaded"
    /\ visualizationMode = "correlation"
    /\ \E m \in CorrMetricChoices :
          /\ m # selectedMetricsForCorrelation[2]
          /\ selectedMetricsForCorrelation' = <<selectedMetricsForCorrelation[1], m>>
    /\ UNCHANGED <<pvars, lvars, selectedYearForCorrelation, mvars>>

NextCorr ==
    \/ LoadMangaroa
    \/ SelectCorrelationMode
    \/ SetSelectedYearForCorrelation
    \/ SetCorrelationMetricX
    \/ SetCorrelationMetricY

SpecCorr == InitCorr /\ [][NextCorr]_vars

(***************************************************************************)
(* calculateCorrelation in floating-point arithmetic                       *)
(*                                                                         *)
(* A JavaScript number is a binary floating-point number: every +, -, *,   *)
(* / and Math.sqrt returns the number of the format nearest to the exact   *)
(* result, ties to the even significand.  The format of the model has      *)
(* FloatBits significant bits (a double has 53) and no exponent limit.  A  *)
(* number is m * 2^e with m = 0 or 2^(FloatBits-1) <= |m| < 2^FloatBits.   *)
(* The operators above compute the same sums exactly; the two agree as     *)
(* long as no operation rounds.                                            *)
(***************************************************************************)
FloatBits == 4

RECURSIVE Pow2(_)
Pow2(j) == IF j = 0 THEN 1 ELSE 2 * Pow2(j - 1)

RECURSIVE BitLen(_)
BitLen(a) == IF a = 0 THEN 0 ELSE 1 + BitLen(a \div 2)

Sgn(i) == IF i < 0 THEN -1 ELSE 1

FZero == [k |-> "fl", m |-> 0, e |-> 0]
FNaN == [k |-> "NaN", m |-> 0, e |-> 0]

\* the number nearest to sign * (a + f) * 2^e, where a >= 0 is an integer and
\* 0 <= f < 1 with f > 0 iff sticky (a has more than FloatBits bits then)
FRound(sign, a, e, sticky) ==
    LET len == BitLen(a)
    IN IF a = 0 THEN FZero
       ELSE IF len <= FloatBits
            THEN [k |-> "fl", m |-> sign * a * Pow2(FloatBits - len),
                  e |-> e - (FloatBits - len)]
       ELSE LET drop == len - FloatBits
                q == a \div Pow2(drop)
                rem == a % Pow2(drop)
                half == Pow2(drop - 1)
                up == rem > half \/ (rem = half /\ (sticky \/ q % 2 = 1))
                f == IF up THEN q + 1 ELSE q
            IN IF f = Pow2(FloatBits)
               THEN [k |-> "fl", m |-> sign * Pow2(FloatBits - 1), e |-> e + drop + 1]
               ELSE [k |-> "fl", m |-> sign * f, e |-> e + drop]

\* the number an integer value reads as
ToFloat(i) == FRound(Sgn(i), Abs(i), 0, FALSE)

\* a + b
FAdd(a, b) ==
    IF a.k = "NaN" \/ b.k = "NaN" THEN FNaN
    ELSE IF a.m = 0 THEN b
    ELSE IF b.m = 0 THEN a
    ELSE LET e == IF a.e < b.e THEN a.e ELSE b.e
             sum == a.m * Pow2(a.e - e) + b.m * Pow2(b.e - e)
         IN FRound(Sgn(sum), Abs(sum), e, FALSE)

\* a - b
FSub(a, b) == FAdd(a, [b EXCEPT !.m = -b.m])

\* a * b
FMul(a, b) ==
    IF a.k = "NaN" \/ b.k = "NaN" THEN FNaN
    ELSE FRound(Sgn(a.m * b.m), Abs(a.m * b.m), a.e + b.e, FALSE)

\* a / b for b # 0 (calculateCorrelation divides after its test of the
\* denominator only)
FDiv(a, b) ==
    IF a.k = "NaN" \/ b.k = "NaN" \/ b.m = 0 THEN FNaN
    ELSE LET scaled == Abs(a.m) * Pow2(2 * FloatBits)
         IN FRound(Sgn(a.m) * Sgn(b.m), scaled \div Abs(b.m),
                   a.e - b.e - 2 * FloatBits, scaled % Abs(b.m) # 0)

\* Math.sqrt(a): NaN for a negative number
FSqrt(a) ==
    IF a.k = "NaN" \/ a.m < 0 THEN FNaN
    ELSE IF a.m = 0 THEN FZero
    ELSE LET j == IF (a.e - (FloatBits + 1)) % 2 = 0 THEN FloatBits + 1
                  ELSE FloatBits + 2
             w == a.m * Pow2(j)
             root == CHOOSE r \in Pow2(FloatBits)..Pow2(FloatBits + 1) :
                         r * r <= w /\ w < (r + 1) * (r + 1)
         IN FRound(1, root, (a.e - j) \div 2, root * root # w)

\* array.reduce((sum, v) => sum + v, acc)
RECURSIVE FSum(_, _)
FSum(acc, s) == IF s = << >> THEN acc ELSE FSum(FAdd(acc, Head(s)), Tail(s))

\* calculateCorrelation(data) with every operation rounded
calculateCorrelationFloat(data) ==
    IF Len(data) < 2 THEN FZero
    ELSE LET n == ToFloat(Len(data))
             xs == [i \in 1..Len(data) |-> ToFloat(data[i].x)]
             ys == [i \in 1..Len(data) |-> ToFloat(data[i].y)]
             sumX == FSum(FZero, xs)
             sumY == FSum(FZero, ys)
             sumXY == FSum(FZero, [i \in 1..Len(data) |-> FMul(xs[i], ys[i])])
             sumX2 == FSum(FZero, [i \in 1..Len(data) |-> FMul(xs[i], xs[i])])
             sumY2 == FSum(FZero, [i \in 1..Len(data) |-> FMul(ys[i], ys[i])])
             numerator == FSub(FMul(n, sumXY), FMul(sumX, sumY))
             denominator == FSqrt(FMul(FSub(FMul(n, sumX2), FMul(sumX, sumX)),
                                       FSub(FMul(n, sumY2), FMul(sumY, sumY))))
         IN IF denominator = FZero THEN FZero ELSE FDiv(numerator, denominator)

\* what the panel renders from the current state, and with the two metrics
\* swapped
FloatCorrelation == calculateCorrelationFloat(CorrelationData)

SwappedCorrelationData ==
    calculateCorrelationData(canopyData, selectedDataset, selectedYearForCorrelation,
                             <<selectedMetricsForCorrelation[2],
                               selectedMetricsForCorrelation[1]>>)

\* rows of the files for the rounded coefficient: two pixels, one year,
\* metric values of at most FloatBits bits
FloatRows ==
    [x : {Num(4), Num(14)}, y : {Num(-411486130)}, year : {Num(MaxYear)},
     canopy_cover : {Num(0), Num(1)}, tree_height : {Num(1), Num(6), Num(7)}]

InitFloat == \E raw \in SeqsUpTo(FloatRows, MaxRows) : PipelineInit("mangaroa", raw)

SpecFloat == InitFloat /\ [][NextCorr]_vars

(***************************************************************************)
(* MultiDatasetVisualizer: its own normalizers and view                    *)
(***************************************************************************)
\* DATASETS[d].type of MultiDatasetVisualizer: io_class is a time series there
Multi_DatasetType(d) ==
    CASE d = "mangaroa" -> "time_series"
      [] d = "glad" -> "forest_change"
      [] d = "io_class" -> "time_series"
      [] OTHER -> "binary"

\* the last entry of DATASETS[d].years of a time-series dataset
Multi_LastYear(d) == IF d = "io_class" THEN IOYears[Len(IOYears)] ELSE MaxYear

\* timeSeriesData.push({...}) for one retained row and one declared year
Multi_IOClassYearRecord(pixel, j) ==
    [ pixel_id            |-> pixel.pixel_id,
      x                   |-> pixel.x,
      y                   |-> pixel.y,
      year                |-> Num(IOYears[j]),
      land_class          |-> pixel.classes[j],
      classes             |-> pixel.classes,
      has_data            |-> pixel.has_data,
      dominant_class      |-> pixel.dominant_class,
      has_temporal_change |-> Cardinality(Range(pixel.classes)) > 1,
      dataset             |-> "io_class" ]

RECURSIVE Multi_Expand(_)
Multi_Expand(baseData) ==
    IF baseData = << >> THEN << >>
    ELSE [j \in DOMAIN IOYears |-> Multi_IOClassYearRecord(Head(baseData), j)]
         \o Multi_Expand(Tail(baseData))

Multi_processIOClassData(raw) ==
    Multi_Expand(SelectSeq([i \in 1..Len(raw) |-> IOClassRecord(raw[i], i - 1)],
                           HasDataValid))

Multi_JRCRecord(row, index, key) ==
    [ pixel_id   |-> index,
      x          |-> parseFloat(row.x),
      y          |-> parseFloat(row.y),
      field_2020 |-> parseInt(row.field),
      has_data   |-> ~StrictEq(parseInt(row.field), NoData),
      is_forest  |-> StrictEq(parseInt(row.field), 1),
      dataset    |-> key ]

Multi_processJRCData(raw, key) ==
    SelectSeq([i \in 1..Len(raw) |-> Multi_JRCRecord(raw[i], i - 1, key)], HasDataValid)

\* the switch of MultiDatasetVisualizer's loadDataset (its processMangaroaData
\* and processGLADData are copies of CanopyCoverVisualizer's)
Multi_processDataset(key, raw) ==
    CASE key = "mangaroa" -> processMangaroaData(raw)
      [] key = "glad" -> processGLADData(raw)
      [] key = "io_class" -> Multi_processIOClassData(raw)
      [] OTHER -> Multi_processJRCData(raw, key)

\* visualData of createVisualizationGeoJSON
Multi_createVisualizationGeoJSON(data, datasetKey, mode, yr) ==
    IF Multi_DatasetType(datasetKey) # "time_series" THEN ArrayResult(data)
    ELSE IF datasetKey = "io_class" /\ mode = "change_detection"
         THEN ArrayResult(SelectSeq(data, LAMBDA d :
                  HasYear(d, yr) /\ "has_temporal_change" \in DOMAIN d
                                 /\ d.has_temporal_change))
    ELSE ArrayResult(SelectSeq(data, LAMBDA d : HasYear(d, yr)))

\* the 'fill-color' expression of the dataset layer, evaluated on the
\* properties of one feature (the record itself); the Mangaroa colour is an
\* interpolation over canopy_cover
Multi_fillColor(datasetKey, mode, props) ==
    CASE datasetKey = "mangaroa" -> "interpolate"
      [] datasetKey = "glad" ->
             IF props.has_forest_gain THEN "#4575b4"
             ELSE IF props.forest_loss_year.k # "null" THEN "#d73027"
             ELSE "#ffffbf"
      [] datasetKey = "io_class" ->
             IF mode = "change_detection"
             THEN (IF props.has_temporal_change THEN "#ff6b35" ELSE "#cccccc")
             ELSE IF StrictEq(props.land_class, 11) THEN "#2ca02c"
             ELSE IF StrictEq(props.land_class, 5) THEN "#8B4513"
             ELSE IF StrictEq(props.land_class, 0) THEN "#87CEEB"
             ELSE IF props.land_class.k = "num" /\ props.land_class.v >= 20 THEN "#d62728"
             ELSE "#1f77b4"
      [] OTHER -> IF props.is_forest THEN "#2ca02c" ELSE "#fee5d9"

\* a > c, a >= c and a < c for a parsed number a and a literal c: false for NaN
Gt(a, c) == a.k = "num" /\ a.v > c
Ge(a, c) == a.k = "num" /\ a.v >= c
Lt(a, c) == a.k = "num" /\ a.v < c

\* masks whose medium band includes 70
GLADMasksOverlap(point) ==
    [ hasData            |-> point.has_data,
      hasForestGain      |-> point.has_forest_gain,
      hasForestLoss      |-> point.forest_loss_year.k # "null",
      hasAnyTreeCover    |-> Gt(point.baseline_tree_cover, 0),
      hasLowTreeCover    |-> Gt(point.baseline_tree_cover, 0) /\ Lt(point.baseline_tree_cover, 30),
      hasMediumTreeCover |-> Ge(point.baseline_tree_cover, 30) /\ Lt(point.baseline_tree_cover, 71),
      hasHighTreeCover   |-> Ge(point.baseline_tree_cover, 70),
      hasAnyChange       |-> point.has_forest_gain \/ point.forest_loss_year.k # "null",
      isForested         |-> Ge(point.baseline_tree_cover, 30),
      isValidForestPixel |-> point.has_data /\ Gt(point.baseline_tree_cover, 0) ]

\* const masks = { ... } of createGLADBinaryMasks
GLADMasks(point) ==
    [ hasData            |-> point.has_data,
      hasForestGain      |-> point.has_forest_gain,
      hasForestLoss      |-> point.forest_loss_year.k # "null",
      hasAnyTreeCover    |-> Gt(point.baseline_tree_cover, 0),
      hasLowTreeCover    |-> Gt(point.baseline_tree_cover, 0) /\ Lt(point.baseline_tree_cover, 30),
      hasMediumTreeCover |-> Ge(point.baseline_tree_cover, 30) /\ Lt(point.baseline_tree_cover, 70),
      hasHighTreeCover   |-> Ge(point.baseline_tree_cover, 70),
      hasAnyChange       |-> point.has_forest_gain \/ point.forest_loss_year.k # "null",
      isForested         |-> Ge(point.baseline_tree_cover, 30),
      isValidForestPixel |-> point.has_data /\ Gt(point.baseline_tree_cover, 0) ]

\* gladData.map(point => ({ ...point, masks }))
createGLADBinaryMasks(gladData) ==
    [i \in 1..Len(gladData) |->
        [f \in DOMAIN gladData[i] \cup {"masks"} |->
            IF f = "masks" THEN GLADMasks(gladData[i]) ELSE gladData[i][f]]]

(***************************************************************************)
(* loadDataset, the map 'load' handler and the dataset-selection effect    *)
(***************************************************************************)
MaxLoads == 4

Components == {"CanopyCoverVisualizer", "MultiDatasetVisualizer"}

Y0 == Num(-411486130)

\* what PapaParse returns for each dataset file when the fetch succeeds
SampleFile(key) ==
    CASE key = "mangaroa" ->
             << [x |-> Num(4), y |-> Y0, year |-> Num(2013),
                 canopy_cover |-> Num(10), tree_height |-> Num(7)],
                [x |-> Num(4), y |-> Y0, year |-> Num(2024),
                 canopy_cover |-> Num(30), tree_height |-> Num(7)] >>
      [] key = "glad" ->
             << [x |-> Num(4), y |-> Y0, datamask |-> Num(1), gain |-> Num(1),
                 lossyear |-> Num(0), treecover2000 |-> Num(50)] >>
      [] key = "io_class" ->
             << [x |-> Num(4), y |-> Y0, classes |-> [j \in DOMAIN IOYears |-> Num(11)]] >>
      [] OTHER -> << [x |-> Num(4), y |-> Y0, field |-> Num(1)] >>

\* the awaited process...Data() call: the normalized rows when the fetch and
\* the parse succeed, [] from its catch block when they fail
Fetched(comp, key, ok) ==
    IF ~ok THEN << >>
    ELSE IF comp = "CanopyCoverVisualizer" THEN processDataset(key, SampleFile(key))
    ELSE Multi_processDataset(key, SampleFile(key))

\* Math.min(...S) and Math.max(...S)
MathMin(S) == IF S = {} THEN [k |-> "Infinity", v |-> 0]
              ELSE Num(CHOOSE a \in S : \A b \in S : a <= b)
MathMax(S) == IF S = {} THEN [k |-> "-Infinity", v |-> 0]
              ELSE Num(CHOOSE a \in S : \A b \in S : a >= b)

\* the DataStats object loadDataset of CanopyCoverVisualizer builds
Stats(key, data) ==
    LET base == [ kind         |-> "stats",
                  totalRecords |-> Len(data),
                  uniquePixels |-> Cardinality({data[i].pixel_id : i \in DOMAIN data}),
                  datasetType  |-> DatasetType(key) ]
        canopyValues == [i \in DOMAIN data |-> data[i].canopy_cover]
    IN IF key # "mangaroa" THEN base
       ELSE [ kind         |-> "stats",
              totalRecords |-> base.totalRecords,
              uniquePixels |-> base.uniquePixels,
              datasetType  |-> base.datasetType,
              yearRange    |-> << MathMin({data[i].year.v : i \in DOMAIN data}),
                                  MathMax({data[i].year.v : i \in DOMAIN data}) >>,
              canopyRange  |-> << MathMin(Range(canopyValues)), MathMax(Range(canopyValues)) >>,
              avgCanopy    |-> IF Len(data) = 0 THEN [k |-> "NaN", num |-> 0, den |-> 0]
                               ELSE [k |-> "ratio", num |-> SumSeq(canopyValues),
                                     den |-> Len(data)] ]

\* the map update effect of either component, run after a render with the
\* given state: it returns early unless the map is loaded, the record set is
\* not empty and the loading flag is down
MapUpdateEffect(comp, loaded, busy, data, key, mode, metricKey, yr, old) ==
    IF ~loaded \/ Len(data) = 0 \/ busy THEN old
    ELSE IF comp = "CanopyCoverVisualizer"
         THEN processVisualizationData(data, key, mode, metricKey, yr)
    ELSE Multi_createVisualizationGeoJSON(data, key, mode, yr)

InitApp ==
    /\ component \in Components
    /\ selectedDataset = "mangaroa"
    /\ canopyData = << >>
    /\ visualizationMode = "current_year"
    /\ selectedMetric = "canopy_cover"
    /\ selectedYear = MaxYear
    /\ isLoaded = FALSE
    /\ loading = TRUE
    /\ dataStats = NoStats
    /\ rows = << >>
    /\ phase = "app"
    /\ view = NoView
    /\ inflight = {}
    /\ effectDue = FALSE
    /\ nStarted = 0
    /\ lastOutcome = "none"
    /\ selectedYearForCorrelation = MaxYear
    /\ selectedMetricsForCorrelation = <<"canopy_cover", "tree_height">>
    /\ gladMasks = << >>

\* loadDataset(key) up to its await: setLoading(true), the fetch is under way
StartLoad(key) ==
    /\ nStarted < MaxLoads
    /\ nStarted' = nStarted + 1
    /\ inflight' = inflight \cup {[id |-> nStarted + 1, key |-> key]}
    /\ loading' = TRUE

\* mapInstance.on('load'): setIsLoaded(true); await loadDataset('mangaroa')
MapLoad ==
    /\ phase = "app"
    /\ ~isLoaded
    /\ isLoaded' = TRUE
    /\ StartLoad("mangaroa")
    /\ effectDue' = TRUE
    /\ UNCHANGED <<cvars, mvars>>
    /\ UNCHANGED <<selectedDataset, canopyData, visualizationMode, selectedMetric,
                   selectedYear, dataStats, component, rows, phase, view, lastOutcome>>

\* the dataset <select> of MultiDatasetVisualizer (CanopyCoverVisualizer has
\* none); the loading overlay covers the control panel while it is shown
SelectDataset ==
    /\ phase = "app"
    /\ component = "MultiDatasetVisualizer"
    /\ isLoaded /\ ~loading
    /\ ~effectDue
    /\ nStarted < MaxLoads
    /\ \E d \in DatasetKeys :
          /\ d # selectedDataset
          /\ selectedDataset' = d
    /\ effectDue' = TRUE
    /\ UNCHANGED <<cvars, mvars>>
    /\ UNCHANGED <<canopyData, visualizationMode, selectedMetric, selectedYear, isLoaded,
                   loading, dataStats, component, rows, phase, view, inflight, nStarted,
                   lastOutcome>>

\* a selection effect that loads the dataset and resets the mode, and leaves
\* the year alone
SelectionEffectKeepsYear ==
    /\ phase = "app"
    /\ effectDue
    /\ isLoaded
    /\ effectDue' = FALSE
    /\ StartLoad(selectedDataset)
    /\ visualizationMode' =
           IF component = "MultiDatasetVisualizer" /\ selectedDataset = "io_class"
           THEN "current_year" ELSE visualizationMode
    /\ view' = MapUpdateEffect(component, isLoaded, loading, canopyData, selectedDataset,
                               visualizationMode, selectedMetric, selectedYear, view)
    /\ UNCHANGED <<cvars, mvars>>
    /\ UNCHANGED <<selectedDataset, canopyData, selectedMetric, selectedYear, isLoaded,
                   dataStats, component, rows, phase, lastOutcome>>

\* useEffect(..., [selectedDataset, isLoaded]) after the render that changed
\* one of them: loadDataset(selectedDataset) and, in MultiDatasetVisualizer,
\* the mode and year resets; the map update effect of the same commit still
\* sees the state of that render
SelectionEffect ==
    /\ phase = "app"
    /\ effectDue
    /\ isLoaded
    /\ effectDue' = FALSE
    /\ StartLoad(selectedDataset)
    /\ visualizationMode' =
           IF component = "MultiDatasetVisualizer" /\ selectedDataset = "io_class"
           THEN "current_year" ELSE visualizationMode
    /\ selectedYear' =
           IF component = "MultiDatasetVisualizer"
              /\ Multi_DatasetType(selectedDataset) = "time_series"
           THEN Multi_LastYear(selectedDataset) ELSE selectedYear
    /\ view' = MapUpdateEffect(component, isLoaded, loading, canopyData, selectedDataset,
                               visualizationMode, selectedMetric, selectedYear, view)
    /\ UNCHANGED <<cvars, mvars>>
    /\ UNCHANGED <<selectedDataset, canopyData, selectedMetric, isLoaded, dataStats,
                   component, rows, phase, lastOutcome>>

\* the rest of loadDataset once the awaited call returned `data`:
\* setCanopyData(data), the statistics (CanopyCoverVisualizer),
\* finally setLoading(false); then the map update effect
FinishLoad(l, ok) ==
    LET data == Fetched(component, l.key, ok)
    IN /\ inflight' = inflight \ {l}
       /\ canopyData' = data
       /\ dataStats' = IF component = "CanopyCoverVisualizer" THEN Stats(l.key, data)
                       ELSE dataStats
       /\ loading' = FALSE
       /\ lastOutcome' = IF ok THEN "ok" ELSE "failed"
       /\ view' = MapUpdateEffect(component, isLoaded, FALSE, data, selectedDataset,
                                  visualizationMode, selectedMetric, selectedYear, view)
       /\ UNCHANGED <<cvars, mvars>>
       /\ UNCHANGED <<selectedDataset, visualizationMode, selectedMetric, selectedYear,
                      isLoaded, component, rows, phase, effectDue, nStarted>>

\* the fetch and the parse of an in-flight load succeed (a response arrives
\* in a later task, after the pending effects have run)
LoadSucceeds ==
    /\ phase = "app"
    /\ ~effectDue
    /\ \E l \in inflight : FinishLoad(l, TRUE)

\* the fetch of an in-flight load fails: process...Data catches and returns []
LoadFails ==
    /\ phase = "app"
    /\ ~effectDue
    /\ \E l \in inflight : FinishLoad(l, FALSE)

Next ==
    \/ MapLoad
    \/ SelectDataset
    \/ SelectionEffect
    \/ LoadSucceeds
    \/ LoadFails

Init == InitApp

Spec == Init /\ [][Next]_vars

(***************************************************************************)
(* The components with the year slider of MultiDatasetVisualizer: dataset  *)
(* selections, the selection effect, the loads and the slider              *)
(***************************************************************************)
\* DATASETS[d].years
Multi_DeclaredYears(d) ==
    IF d = "mangaroa" THEN MinYear..MaxYear
    ELSE IF d = "io_class" THEN {IOYears[i] : i \in DOMAIN IOYears}
    ELSE {}

\* the year <Slider>, rendered for a time series only, from years[0] to the
\* last of years in steps of 1; the loading overlay covers it while shown
Multi_YearSlider ==
    /\ phase = "app"
    /\ component = "MultiDatasetVisualizer"
    /\ isLoaded /\ ~loading
    /\ ~effectDue
    /\ Multi_DatasetType(selectedDataset) = "time_series"
    /\ \E yr \in (CHOOSE a \in Multi_DeclaredYears(selectedDataset) :
                       \A b \in Multi_DeclaredYears(selectedDataset) : a <= b)
                 ..(CHOOSE a \in Multi_DeclaredYears(selectedDataset) :
                       \A b \in Multi_DeclaredYears(selectedDataset) : a >= b) :
          /\ yr # selectedYear
          /\ selectedYear' = yr
          /\ view' = MapUpdateEffect(component, isLoaded, loading, canopyData,
                                     selectedDataset, visualizationMode, selectedMetric,
                                     yr, view)
    /\ UNCHANGED <<cvars, mvars>>
    /\ UNCHANGED <<selectedDataset, canopyData, visualizationMode, selectedMetric, isLoaded,
                   loading, dataStats, component, rows, phase, inflight, effectDue,
                   nStarted, lastOutcome>>

NextSelect ==
    \/ MapLoad
    \/ SelectDataset
    \/ SelectionEffect
    \/ LoadSucceeds
    \/ LoadFails
    \/ Multi_YearSlider

SpecSelect == Init /\ [][NextSelect]_vars

(***************************************************************************)
(* One dataset load in either component followed by changes of the mode    *)
(* and of the year: the view each component hands to the map               *)
(***************************************************************************)
Multi_ModeChoices == {"current_year", "change_detection", "temporal_analysis"}

\* the ends of DATASETS[d].years, and one year inside for io_class
Multi_YearChoices(d) ==
    IF d = "io_class" THEN {IOYears[1], IOYears[2], IOYears[Len(IOYears)]}
    ELSE {MinYear, MaxYear}

\* rows for the views: two pixels and two years of Mangaroa, one coordinate
\* of the other datasets
ViewRows(d) ==
    CASE d = "mangaroa" ->
             MangaroaRows({Num(4), Num(14)}, {Num(-411486130)},
                          {Num(MinYear), Num(MaxYear)}, {Num(10)})
      [] d = "glad" -> GLADRows({Num(4)}, {Num(-411486130)})
      [] d = "io_class" -> IORows({Num(4)}, {Num(-411486130)})
      [] OTHER -> JRCRows({Num(4)}, {Num(-411486130)})

\* MultiDatasetVisualizer with dataset d selected and its file parsed: the
\* selection effect has reset the mode for io_class and the year for a time
\* series; any other dataset keeps the mode chosen earlier
Multi_PipelineInit(d, raw) ==
    /\ component = "MultiDatasetVisualizer"
    /\ selectedDataset = d
    /\ rows = raw
    /\ phase = "parsed"
    /\ canopyData = << >>
    /\ visualizationMode \in (IF d = "io_class" THEN {"current_year"} ELSE Multi_ModeChoices)
    /\ selectedMetric = "canopy_cover"
    /\ selectedYear = IF Multi_DatasetType(d) = "time_series" THEN Multi_LastYear(d)
                      ELSE MaxYear
    /\ view = NoView
    /\ isLoaded = TRUE
    /\ loading = FALSE
    /\ dataStats = NoStats
    /\ inflight = {}
    /\ effectDue = FALSE
    /\ nStarted = 0
    /\ lastOutcome = "none"
    /\ selectedYearForCorrelation = MaxYear
    /\ selectedMetricsForCorrelation = <<"canopy_cover", "tree_height">>
    /\ gladMasks = << >>

InitView ==
    \E d \in DatasetKeys : \E raw \in SeqsUpTo(ViewRows(d), MaxRows) :
        PipelineInit(d, raw) \/ Multi_PipelineInit(d, raw)

\* loadDataset of MultiDatasetVisualizer once the rows are parsed:
\* setData(loadedData), then the map update effect
Multi_LoadDataset ==
    /\ phase = "parsed"
    /\ canopyData' = Multi_processDataset(selectedDataset, rows)
    /\ phase' = "loaded"
    /\ view' = MapUpdateEffect(component, isLoaded, FALSE, canopyData', selectedDataset,
                               visualizationMode, selectedMetric, selectedYear, view)
    /\ UNCHANGED <<selectedDataset, rows, visualizationMode, selectedMetric, selectedYear>>
    /\ UNCHANGED <<lvars, cvars, mvars>>

\* the mode <select>, rendered for io_class only
Multi_SetVisualizationMode ==
    /\ phase = "loaded"
    /\ selectedDataset = "io_class"
    /\ \E m \in Multi_ModeChoices :
          /\ m # visualizationMode
          /\ visualizationMode' = m
          /\ view' = MapUpdateEffect(component, isLoaded, loading, canopyData,
                                     selectedDataset, m, selectedMetric, selectedYear, view)
    /\ UNCHANGED <<selectedDataset, rows, phase, canopyData, selectedMetric, selectedYear>>
    /\ UNCHANGED <<lvars, cvars, mvars>>

\* the year slider, rendered for a time series only
Multi_SetSelectedYear ==
    /\ phase = "loaded"
    /\ Multi_DatasetType(selectedDataset) = "time_series"
    /\ \E yr \in Multi_YearChoices(selectedDataset) :
          /\ yr # selectedYear
          /\ selectedYear' = yr
          /\ view' = MapUpdateEffect(component, isLoaded, loading, canopyData,
                                     selectedDataset, visualizationMode, selectedMetric,
                                     yr, view)
    /\ UNCHANGED <<selectedDataset, rows, phase, canopyData, visualizationMode, selectedMetric>>
    /\ UNCHANGED <<lvars, cvars, mvars>>

NextMulti ==
    \/ Multi_LoadDataset
    \/ Multi_SetVisualizationMode
    \/ Multi_SetSelectedYear

NextView ==
    \/ component = "CanopyCoverVisualizer" /\ NextDerive
    \/ component = "MultiDatasetVisualizer" /\ NextMulti

SpecView == InitView /\ [][NextView]_vars

(***************************************************************************)
(* One load of the forest-change file in either component                  *)
(***************************************************************************)
\* rows of the GLAD file: readable and unreadable x, datamask 1 and 0, gain
\* 0 and 1, lossyear 0 and 5
GLADFullRows ==
    [x : {Text, Num(4)}, y : {Num(-411486130)}, datamask : {Num(1), Num(0)},
     gain : {Num(0), Num(1)}, lossyear : {Num(0), Num(5)}, treecover2000 : {Num(50)}]

InitGLAD ==
    \E raw \in SeqsUpTo(GLADFullRows, MaxRows) :
        PipelineInit("glad", raw) \/ Multi_PipelineInit("glad", raw)

NextGLAD ==
    \/ component = "CanopyCoverVisualizer" /\ LoadGLAD
    \/ component = "MultiDatasetVisualizer" /\ Multi_LoadDataset

SpecGLAD == InitGLAD /\ [][NextGLAD]_vars

(***************************************************************************)
(* One load of the forest-change file or of a forest / non-forest file in  *)
(* either component: the relabeling of the records shown                   *)
(***************************************************************************)
RelabelKeys == {"glad", "jrc_cover", "jrc_type"}

RelabelRows(d) ==
    IF d = "glad" THEN GLADFullRows ELSE JRCRows({Num(4)}, {Num(-411486130)})

InitRelabel ==
    \E d \in RelabelKeys : \E raw \in SeqsUpTo(RelabelRows(d), MaxRows) :
        PipelineInit(d, raw) \/ Multi_PipelineInit(d, raw)

NextRelabel ==
    \/ component = "CanopyCoverVisualizer" /\ (LoadGLAD \/ LoadJRCCover \/ LoadJRCType)
    \/ component = "MultiDatasetVisualizer" /\ Multi_LoadDataset

SpecRelabel == InitRelabel /\ [][NextRelabel]_vars

(***************************************************************************)
(* One load of the forest-change file in MultiDatasetVisualizer followed   *)
(* by createGLADBinaryMasks on the loaded records                          *)
(***************************************************************************)
\* tree cover on both sides of each band limit and unreadable, without
\* change; and tree cover 50 with a gain, a loss, and both
MaskRows ==
    [x : {Num(4)}, y : {Num(-411486130)}, datamask : {Num(1)}, gain : {Num(0)},
     lossyear : {Num(0)},
     treecover2000 : {Text, Num(0), Num(1), Num(29), Num(30), Num(69), Num(70)}]
    \cup
    [x : {Num(4)}, y : {Num(-411486130)}, datamask : {Num(1)}, gain : {Num(0), Num(1)},
     lossyear : {Num(0), Num(5)}, treecover2000 : {Num(50)}]

InitMasks == \E raw \in SeqsUpTo(MaskRows, MaxRows) : Multi_PipelineInit("glad", raw)

\* createGLADBinaryMasks applied to the loaded records
CreateGLADBinaryMasks ==
    /\ phase = "loaded"
    /\ selectedDataset = "glad"
    /\ gladMasks # createGLADBinaryMasks(canopyData)
    /\ gladMasks' = createGLADBinaryMasks(canopyData)
    /\ UNCHANGED <<pvars, lvars, cvars>>

NextMasks ==
    \/ Multi_LoadDataset
    \/ CreateGLADBinaryMasks

SpecMasks == InitMasks /\ [][NextMasks]_vars

(***************************************************************************)
(* One Mangaroa load of rows with unreadable, infinite and out-of-range    *)
(* fields                                                                  *)
(***************************************************************************)
ValidityRows ==
    [x : {Text, InfText, Num(4)}, y : {InfText, Num(-411486130)},
     year : {Text, Num(MinYear - 1), Num(MinYear), Num(MaxYear), Num(MaxYear + 1)},
     canopy_cover : {Num(10)}, tree_height : {Num(7)}]

InitValid == \E raw \in SeqsUpTo(ValidityRows, MaxRows) : PipelineInit("mangaroa", raw)

SpecValid == InitValid /\ [][LoadMangaroa]_vars

(***************************************************************************)
(* Properties of loadDataset (Spec)                                        *)
(***************************************************************************)
\* every load that was requested has completed and the effects have run
AllLoadsDone == isLoaded /\ ~effectDue /\ inflight = {}

\* C1: last selection wins: once the loads of an earlier and of a later
\* selection have both completed, the loaded record set is the one of the
\* dataset selected last, whatever order the fetches completed in.
C1_LastSelectionWins ==
    (phase = "app" /\ AllLoadsDone) =>
        \A i \in DOMAIN canopyData : canopyData[i].dataset = selectedDataset

\* C4: when the fetch or the parse of a dataset file fails, the load ends
\* with the record set replaced by the synthetic fallback data set (so it is
\* not left empty) and the result is not presented as real data.
C4_FallbackAfterFailedFetch ==
    (phase = "app" /\ component = "CanopyCoverVisualizer" /\ lastOutcome = "failed") =>
        /\ Len(canopyData) > 0
        /\ dataStats = NoStats

(***************************************************************************)
(* Properties of the view derivation (SpecDerive)                          *)
(***************************************************************************)
\* the numeric metric of a loaded Mangaroa record, read off the record itself
RecordMetric(d, metricKey) ==
    IF metricKey = "canopy_cover" THEN d.canopy_cover ELSE d.tree_height

NumericMetrics == {"canopy_cover", "tree_height"}

\* the view on the map is a change-from-baseline view of a Mangaroa load
ChangeViewShown ==
    /\ phase = "loaded"
    /\ selectedDataset = "mangaroa"
    /\ visualizationMode = "change_from_baseline"
    /\ Len(canopyData) > 0

\* the loaded records of one pixel at the baseline year
BaselineRecords(pid) ==
    SelectSeq(canopyData, LAMBDA d : d.pixel_id = pid /\ d.year.v = BaselineYear)

\* C2: in change_from_baseline mode a pixel with a record at the selected
\* year but none at the baseline year 2013 is absent from the output: every
\* emitted entry belongs to a pixel that has a baseline record.
C2_NoEntryWithoutBaseline ==
    ChangeViewShown =>
        \A i \in DOMAIN view.entries :
            BaselineRecords(view.entries[i].pixel_id) # << >>

\* C3: in change_from_baseline mode every record at the selected year whose
\* pixel has exactly one baseline record, with metric value b, is emitted
\* with change value c - b and baseline value b, c being its own metric value.
C3_ChangeIsCurrentMinusBaseline ==
    (ChangeViewShown /\ selectedMetric \in NumericMetrics) =>
        LET current == SelectSeq(canopyData, LAMBDA d : d.year.v = selectedYear)
        IN /\ Len(view.entries) = Len(current)
           /\ \A i \in DOMAIN current :
                 LET base == BaselineRecords(current[i].pixel_id)
                     b == RecordMetric(base[1], selectedMetric)
                     c == RecordMetric(current[i], selectedMetric)
                 IN Len(base) = 1 =>
                       /\ view.entries[i].pixel_id = current[i].pixel_id
                       /\ view.entries[i].change_value = Num(c - b)
                       /\ view.entries[i].baseline_value = Num(b)

\* C3 witness: a change view in which a pixel with baseline 10 and current
\* value 30 is emitted with change 20, while the first baseline record of the
\* load belongs to another pixel and holds another value
C3_Witness ==
    /\ ChangeViewShown
    /\ selectedMetric = "canopy_cover"
    /\ selectedYear = MaxYear
    /\ \E i \in DOMAIN view.entries :
          /\ Len(BaselineRecords(view.entries[i].pixel_id)) = 1
          /\ view.entries[i].baseline_value = Num(10)
          /\ view.entries[i].change_value = Num(20)
          /\ canopyData[1].year.v = BaselineYear
          /\ canopyData[1].pixel_id # view.entries[i].pixel_id
          /\ canopyData[1].canopy_cover = 30

Rounded6(n) == [neg |-> n.v < 0, mag |-> (Abs(n.v) + 5) \div 10]

SameRounded(a, b) == Rounded6(a.x) = Rounded6(b.x) /\ Rounded6(a.y) = Rounded6(b.y)

\* C6: no record whose no-data sentinel is present is in the loaded set: no
\* GLAD record with datamask other than 1, no classification record with 255
\* in any class band 2017..2023, no JRC record whose 2020 field is 255.
C6_NoSentinelRecordLoaded ==
    phase = "loaded" =>
        \A i \in DOMAIN canopyData :
            LET r == canopyData[i]
            IN /\ selectedDataset = "glad" => StrictEq(r.datamask, 1)
               /\ selectedDataset = "io_class" =>
                     \A j \in DOMAIN IOYears : ~StrictEq(r.classes[j], NoData)
               /\ selectedDataset \in {"jrc_cover", "jrc_type"} =>
                     ~StrictEq(r.field_2020, NoData)

\* C7: in every dataset load, two records whose (x, y) rounded to 6 decimals
\* are equal carry the same pixel id.
C7_PixelIdFromCoordinateIndex ==
    phase = "loaded" =>
        \A i, j \in DOMAIN canopyData :
            SameRounded(canopyData[i], canopyData[j]) =>
                canopyData[i].pixel_id = canopyData[j].pixel_id

SeenBefore(i) == {<<Rounded6(canopyData[j].x), Rounded6(canopyData[j].y)>> : j \in 1..(i - 1)}

C10_OneRecordPerPixelYear ==
    (phase = "loaded" /\ selectedDataset = "mangaroa") =>
        \A i, j \in DOMAIN canopyData :
            ( /\ canopyData[i].pixel_id = canopyData[j].pixel_id
              /\ canopyData[i].year = canopyData[j].year ) => i = j

(***************************************************************************)
(* Properties of the trend analysis                                        *)
(***************************************************************************)
\* the view on the map is a trend-analysis view of a Mangaroa load
TrendViewShown ==
    /\ phase = "loaded"
    /\ selectedDataset = "mangaroa"
    /\ visualizationMode = "trend_analysis"
    /\ Len(canopyData) > 0

\* the number of loaded records of one pixel id
RecordsOf(pid) == Cardinality({i \in DOMAIN canopyData : canopyData[i].pixel_id = pid})

\* C11: in trend_analysis mode the output holds exactly one entry for each
\* pixel id with at least 2 loaded records and none for a pixel id with fewer.
C11_OneTrendPerPixelWithTwoRecords ==
    TrendViewShown =>
        /\ {view.entries[i].pixel_id : i \in DOMAIN view.entries}
               = {canopyData[i].pixel_id : i \in DOMAIN canopyData} \ {pid \in 0..MaxRows : RecordsOf(pid) < 2}
        /\ \A i, j \in DOMAIN view.entries :
               view.entries[i].pixel_id = view.entries[j].pixel_id => i = j

\* C11 witness: two pixels are loaded, one with two records and one with a
\* single record, and the trend view holds the entry of the first only
C11_Witness ==
    /\ TrendViewShown
    /\ Len(canopyData) = 3
    /\ RecordsOf(0) = 1
    /\ RecordsOf(1) = 2
    /\ Len(view.entries) = 1
    /\ view.entries[1].pixel_id = 1

\* the records of the pixel of a trend entry lie on the line of slope p / q
OnLine(t, p, q) ==
    \A i, j \in DOMAIN t.years :
        q * (t.values[i].v - t.values[j].v) = p * (t.years[i] - t.years[j])

\* C12: in trend_analysis mode the direction of an emitted pixel is
\* 'increasing' exactly when its slope is a number strictly above 0.5,
\* 'decreasing' exactly when it is strictly below -0.5, 'stable' otherwise;
\* a slope of exactly 0.5 or -0.5 is 'stable'.  (The slope is the ratio
\* num / den with den > 0.)
C12_DirectionFromSlope ==
    TrendViewShown =>
        \A i \in DOMAIN view.entries :
            LET t == view.entries[i]
                s == t.trend_slope
            IN /\ s.k = "ratio" => s.den > 0
               /\ t.trend_direction = "increasing" <=> (s.k = "ratio" /\ 2 * s.num > s.den)
               /\ t.trend_direction = "decreasing" <=> (s.k = "ratio" /\ 2 * s.num < -s.den)
               /\ t.trend_direction \in {"increasing", "decreasing", "stable"}

\* C12 witness: a pixel with the points (2013, 0), (2015, 1) has slope
\* exactly 0.5 and is 'stable'
C12_Witness ==
    /\ TrendViewShown
    /\ selectedMetric = "canopy_cover"
    /\ Len(canopyData) = 2
    /\ canopyData[1].year = Num(2013) /\ canopyData[1].canopy_cover = 0
    /\ canopyData[2].year = Num(2015) /\ canopyData[2].canopy_cover = 1
    /\ Len(view.entries) = 1
    /\ view.entries[1].trend_slope.k = "ratio"
    /\ 2 * view.entries[1].trend_slope.num = view.entries[1].trend_slope.den
    /\ view.entries[1].trend_direction = "stable"

\* C13: in trend_analysis mode, for a pixel whose records lie exactly on a
\* line value = a * year + b (a = p / q) over at least 2 distinct years the
\* slope equals a; the points (2013, 0), ..., (2024, 11) give slope 1 and
\* direction 'increasing'.
C13_SlopeOfExactLine ==
    (TrendViewShown /\ selectedMetric \in NumericMetrics) =>
        /\ \A i \in DOMAIN view.entries : \A p \in -2..2 : \A q \in 1..2 :
               LET t == view.entries[i]
               IN (OnLine(t, p, q) /\ Cardinality(Range(t.years)) >= 2) =>
                      /\ t.trend_slope.k = "ratio"
                      /\ q * t.trend_slope.num = p * t.trend_slope.den
        /\ (rows = LineExample /\ selectedMetric = "canopy_cover") =>
               /\ Len(view.entries) = 1
               /\ view.entries[1].trend_slope.k = "ratio"
               /\ view.entries[1].trend_slope.num = view.entries[1].trend_slope.den
               /\ view.entries[1].trend_direction = "increasing"

\* C13 witness: the trend view of the twelve points (2013, 0), ..., (2024, 11)
C13_Witness ==
    /\ TrendViewShown
    /\ selectedMetric = "canopy_cover"
    /\ rows = LineExample
    /\ Len(canopyData) = 12
    /\ view.entries[1].n = 12
    /\ view.entries[1].trend_slope.num = view.entries[1].trend_slope.den
    /\ view.entries[1].trend_direction = "increasing"

(***************************************************************************)
(* Properties of the correlation panel (SpecCorr)                          *)
(***************************************************************************)
\* the correlation panel is rendered over a loaded Mangaroa record set
CorrelationShown == phase = "loaded" /\ visualizationMode = "correlation"

PointsOnLine(pts, p, q) ==
    \A i, j \in DOMAIN pts : q * (pts[i].y - pts[j].y) = p * (pts[i].x - pts[j].x)

AbsGreater(r, a) == 100 * r.num * r.num > a * a * r.sq

\* C16: the band depends only on |r| and the sign of r: 'strong' iff
\* |r| > 0.7, 'moderate' iff 0.3 < |r| <= 0.7, 'weak' iff |r| <= 0.3, the
\* negative bands mirroring the positive ones (also at r = -0.3 and -0.7).
C16_BandMirrored ==
    CorrelationShown =>
        LET r == Correlation
            b == CorrelationBand(r)
        IN /\ b \in {"Strong positive correlation", "Strong negative correlation"}
                <=> AbsGreater(r, 7)
           /\ b \in {"Moderate positive correlation", "Moderate negative correlation"}
                <=> (AbsGreater(r, 3) /\ ~AbsGreater(r, 7))
           /\ b = "Weak correlation" <=> ~AbsGreater(r, 3)
           /\ b \in {"Strong positive correlation", "Moderate positive correlation"}
                => r.num > 0
           /\ b \in {"Strong negative correlation", "Moderate negative correlation"}
                => r.num < 0

(***************************************************************************)
(* Properties of the current-value view (SpecView)                         *)
(***************************************************************************)
\* the selected dataset is a time series of the mounted component
IsTimeSeries ==
    IF component = "CanopyCoverVisualizer" THEN DatasetType(selectedDataset) = "time_series"
    ELSE Multi_DatasetType(selectedDataset) = "time_series"

\* the mounted component shows the current value (no change, trend or
\* change-detection view)
CurrentValueShown ==
    /\ phase = "loaded"
    /\ Len(canopyData) > 0
    /\ IF component = "CanopyCoverVisualizer"
       THEN visualizationMode \notin {"change_from_baseline", "trend_analysis"}
       ELSE visualizationMode = "current_year"

\* C17: in current-value mode on a time-series dataset the output is exactly
\* the loaded records whose year is the selected year, in their order; on a
\* non-time-series dataset it is the loaded record set unchanged.
C17_CurrentValueView ==
    CurrentValueShown =>
        view.entries = IF IsTimeSeries
                       THEN SelectSeq(canopyData, LAMBDA d : d.year = Num(selectedYear))
                       ELSE canopyData

\* C17 witness: MultiDatasetVisualizer shows year 2018 of two classification
\* pixels: 14 records loaded, 2 of them in the view
C17_Witness ==
    /\ CurrentValueShown
    /\ component = "MultiDatasetVisualizer"
    /\ selectedDataset = "io_class"
    /\ selectedYear = 2018
    /\ Len(canopyData) = 14
    /\ Len(view.entries) = 2
    /\ view.entries[1].pixel_id # view.entries[2].pixel_id

(***************************************************************************)
(* Properties of the forest-change normalizer (SpecGLAD)                   *)
(***************************************************************************)
\* the raw row a retained forest-change record was made from
RowOf(r) == rows[r.pixel_id + 1]

\* C18: a forest-change row is retained iff its coordinates are readable and
\* its datamask is 1; the retained record has forest_loss_year =
\* 2000 + lossyear when lossyear > 0 and null otherwise, and has_forest_gain
\* true iff gain = 1.
C18_ForestChangeRecord ==
    (phase = "loaded" /\ selectedDataset = "glad") =>
        /\ \A i \in DOMAIN rows :
              (\E j \in DOMAIN canopyData : canopyData[j].pixel_id = i - 1)
                  <=> (rows[i].x.k = "num" /\ rows[i].y.k = "num" /\ rows[i].datamask = Num(1))
        /\ \A j \in DOMAIN canopyData :
              LET r == canopyData[j]
                  row == RowOf(r)
              IN /\ r.has_data
                 /\ r.has_forest_gain <=> (row.gain = Num(1))
                 /\ r.forest_loss_year =
                        IF row.lossyear.v > 0 THEN Num(2000 + row.lossyear.v)
                        ELSE [k |-> "null", v |-> 0]

\* C18 witness: a row with gain = 1, lossyear = 0, datamask = 1 is retained
\* with has_forest_gain true and no loss year, beside a row with lossyear 5
C18_Witness ==
    /\ phase = "loaded"
    /\ selectedDataset = "glad"
    /\ \E j, k \in DOMAIN canopyData :
          /\ RowOf(canopyData[j]).gain = Num(1)
          /\ RowOf(canopyData[j]).lossyear = Num(0)
          /\ RowOf(canopyData[j]).datamask = Num(1)
          /\ canopyData[j].has_forest_gain
          /\ canopyData[j].forest_loss_year.k = "null"
          /\ canopyData[k].forest_loss_year = Num(2005)

(***************************************************************************)
(* Properties of the classification normalizer (SpecView)                  *)
(***************************************************************************)
\* the loaded records made from raw row i (pixel_id is the row index)
RecordsOfRow(i) == SelectSeq(canopyData, LAMBDA r : r.pixel_id = i - 1)

\* raw row i is a valid classification row: readable coordinates and a
\* class_2017 other than the no-data value
ValidIORow(i) ==
    /\ rows[i].x.k = "num"
    /\ rows[i].y.k = "num"
    /\ rows[i].classes[1] # Num(NoData)

\* raw row i is expanded into one record per declared year, each with the
\* whole class map, the class of 2017 as dominant class and the change flag
ExpandedRow(i) ==
    LET recs == RecordsOfRow(i)
    IN /\ Len(recs) = Len(IOYears)
       /\ \A j \in DOMAIN recs :
             /\ "year" \in DOMAIN recs[j]
             /\ recs[j].year = Num(IOYears[j])
             /\ recs[j].classes = rows[i].classes
             /\ recs[j].dominant_class = rows[i].classes[1]
             /\ "has_temporal_change" \in DOMAIN recs[j]
             /\ recs[j].has_temporal_change
                    <=> (\E a, b \in DOMAIN IOYears : rows[i].classes[a] # rows[i].classes[b])

MultiClassificationRowExpanded ==
    (phase = "loaded" /\ selectedDataset = "io_class"
                      /\ component = "MultiDatasetVisualizer") =>
        \A i \in DOMAIN rows : ValidIORow(i) => ExpandedRow(i)

(***************************************************************************)
(* Properties of the Mangaroa row filter (SpecValid)                       *)
(***************************************************************************)
\* a raw row whose x and y read as finite numbers and whose year reads as a
\* number within 2013..2024
FiniteRowInRange(row) ==
    /\ row.x.k = "num"
    /\ row.y.k = "num"
    /\ row.year.k = "num"
    /\ row.year.v >= MinYear
    /\ row.year.v <= MaxYear

\* C20: a Mangaroa row is kept iff its x and y parse to finite numbers and
\* its year parses to a number with 2013 <= year <= 2024; every other row is
\* dropped on its own: the loaded records are the rows of that kind, in
\* their order.
C20_RowKeptIffFiniteAndInRange ==
    (phase = "loaded" /\ selectedDataset = "mangaroa") =>
        LET kept == SelectSeq(rows, FiniteRowInRange)
        IN /\ Len(canopyData) = Len(kept)
           /\ \A i \in DOMAIN canopyData :
                 /\ canopyData[i].x = kept[i].x
                 /\ canopyData[i].y = kept[i].y
                 /\ canopyData[i].year = kept[i].year

(***************************************************************************)
(* Properties of the relabeling (SpecRelabel)                              *)
(***************************************************************************)
\* the value, and the colour, each shown record gets in the mounted component
Label(e) ==
    IF component = "CanopyCoverVisualizer" THEN getMetricValue(e, selectedMetric)
    ELSE Multi_fillColor(selectedDataset, visualizationMode, e)

LabelGain == IF component = "CanopyCoverVisualizer" THEN 2 ELSE "#4575b4"
LabelLoss == IF component = "CanopyCoverVisualizer" THEN 0 ELSE "#d73027"
LabelStable == IF component = "CanopyCoverVisualizer" THEN 1 ELSE "#ffffbf"
LabelForest == IF component = "CanopyCoverVisualizer" THEN 0 ELSE "#2ca02c"
LabelNonForest == IF component = "CanopyCoverVisualizer" THEN 1 ELSE "#fee5d9"

\* C21: every GLAD record shown is labelled gain when has_forest_gain is
\* true (also when it carries a loss year), loss when has_forest_gain is
\* false and a loss year is present, stable when neither holds; every JRC
\* record shown is labelled forest iff is_forest is true and non-forest
\* otherwise.
C21_Relabeling ==
    (phase = "loaded" /\ view.kind = "array") =>
        \A i \in DOMAIN view.entries :
            LET e == view.entries[i]
            IN IF selectedDataset = "glad"
               THEN Label(e) = (IF e.has_forest_gain THEN LabelGain
                                ELSE IF e.forest_loss_year.k # "null" THEN LabelLoss
                                ELSE LabelStable)
               ELSE Label(e) = (IF e.is_forest THEN LabelForest ELSE LabelNonForest)

\* a shown GLAD record with both a gain flag and a loss year, labelled gain
\* by getMetricValue, next to one labelled loss
C21_Witness ==
    /\ phase = "loaded"
    /\ component = "CanopyCoverVisualizer"
    /\ selectedDataset = "glad"
    /\ view.kind = "array"
    /\ \E i, j \in DOMAIN view.entries :
          /\ view.entries[i].has_forest_gain
          /\ view.entries[i].forest_loss_year.k # "null"
          /\ getMetricValue(view.entries[i], selectedMetric) = 2
          /\ getMetricValue(view.entries[j], selectedMetric) = 0

(***************************************************************************)
(* Properties of the data statistics (Spec)                                *)
(***************************************************************************)
\* the statistics of a Mangaroa load that produced no record are stored
EmptyMangaroaStats ==
    /\ component = "CanopyCoverVisualizer"
    /\ dataStats.kind = "stats"
    /\ dataStats.datasetType = "time_series"
    /\ dataStats.totalRecords = 0

\* C22: the mean over an empty list fails instead of yielding a value: when
\* a Mangaroa load produced zero records, the stored data statistics hold no
\* average canopy value and no min/max canopy range.
C22_EmptyMeanFails ==
    EmptyMangaroaStats =>
        /\ "avgCanopy" \notin DOMAIN dataStats
        /\ "canopyRange" \notin DOMAIN dataStats

(***************************************************************************)
(* Properties of the loading flag (Spec)                                   *)
(***************************************************************************)
\* C23: the loading flag is true in every state in which at least one
\* loadDataset call is still in flight; hence the completion of the first of
\* two overlapping loads neither clears the flag nor lets the map overlay be
\* redrawn while the other is pending.
C23_LoadingWhileInFlight == (inflight # {}) => loading

(***************************************************************************)
(* Properties of the map overlay (Spec)                                    *)
(***************************************************************************)
\* the features the mounted component derives from the current state
DerivedEntries ==
    IF Len(canopyData) = 0 THEN << >>
    ELSE IF component = "CanopyCoverVisualizer"
         THEN processVisualizationData(canopyData, selectedDataset, visualizationMode,
                                       selectedMetric, selectedYear).entries
    ELSE Multi_createVisualizationGeoJSON(canopyData, selectedDataset, visualizationMode,
                                          selectedYear).entries

LoadCompleted == AllLoadsDone /\ lastOutcome # "none"

\* C24: once a dataset load has completed (and none is pending), the map
\* overlay shows the features derived from the currently loaded record set;
\* after a load that ended with zero records it shows no feature.
C24_OverlayFollowsLoadedRecords == LoadCompleted => view.entries = DerivedEntries

\* the same for the loads that ended with at least one record
OverlayFollowsNonEmptyLoad ==
    (LoadCompleted /\ Len(canopyData) > 0) => view.entries = DerivedEntries

(***************************************************************************)
(* Properties of the trend divisor (SpecTrend)                             *)
(***************************************************************************)
\* C25: in trend_analysis mode every emitted pixel has a defined slope: for
\* a numeric metric the divisor n * sumXX - sumX^2 of every emitted entry is
\* non-zero, also when all the records of the pixel carry the same year, so
\* that no entry has the slope 0 / 0.
C25_TrendSlopeDefined ==
    (TrendViewShown /\ selectedMetric \in NumericMetrics) =>
        \A i \in DOMAIN view.entries :
            LET t == view.entries[i]
                n == Len(t.years)
                sumX == SumSeq(t.years)
                sumXX == SumSeq([j \in 1..n |-> t.years[j] * t.years[j]])
            IN /\ n * sumXX - sumX * sumX # 0
               /\ t.trend_slope.k = "ratio"

(***************************************************************************)
(* Properties of the range of the coefficient (SpecFloat, SpecCorr)        *)
(***************************************************************************)
\* |r| > 1 for a number r
FAbsGreaterOne(r) ==
    /\ r.k = "fl"
    /\ r.m # 0
    /\ \/ r.e > -(FloatBits - 1)
       \/ r.e = -(FloatBits - 1) /\ Abs(r.m) > Pow2(FloatBits - 1)

\* C26: for every list of points the value r returned by calculateCorrelation
\* is a number with -1 <= r <= 1, and swapping the two metrics returns the
\* same r.
C26_CorrelationWithinUnitRange ==
    CorrelationShown =>
        /\ FloatCorrelation.k = "fl"
        /\ ~FAbsGreaterOne(FloatCorrelation)
        /\ calculateCorrelationFloat(SwappedCorrelationData) = FloatCorrelation

\* the same in exact arithmetic: numerator^2 <= radicand
ExactCorrelationWithinUnitRange ==
    CorrelationShown =>
        /\ Correlation.k = "num"
        /\ Correlation.num * Correlation.num <= Correlation.sq
        /\ calculateCorrelation(SwappedCorrelationData) = Correlation

\* swapping the two metrics returns the same rounded value
SwapReturnsSameCorrelation ==
    CorrelationShown => calculateCorrelationFloat(SwappedCorrelationData) = FloatCorrelation

(***************************************************************************)
(* Equivalence of the JRC normalizers of the two components (SpecRelabel)  *)
(***************************************************************************)
\* what the normalizer of the component that is not mounted returns for the
\* same file
OtherComponentData ==
    IF component = "CanopyCoverVisualizer" THEN Multi_processDataset(selectedDataset, rows)
    ELSE processDataset(selectedDataset, rows)

\* C27: processJRCCoverData and processJRCTypeData of CanopyCoverVisualizer
\* and of MultiDatasetVisualizer retain the same rows of a file and give each
\* retained row the same is_forest flag.
C27_JRCNormalizersEquivalent ==
    (phase = "loaded" /\ selectedDataset \in {"jrc_cover", "jrc_type"}) =>
        /\ Len(canopyData) = Len(OtherComponentData)
        /\ \A i \in DOMAIN canopyData :
              /\ canopyData[i].pixel_id = OtherComponentData[i].pixel_id
              /\ canopyData[i].is_forest = OtherComponentData[i].is_forest

\* the two components retain the same rows
JRCNormalizersRetainSameRows ==
    (phase = "loaded" /\ selectedDataset \in {"jrc_cover", "jrc_type"}) =>
        /\ Len(canopyData) = Len(OtherComponentData)
        /\ \A i \in DOMAIN canopyData :
              canopyData[i].pixel_id = OtherComponentData[i].pixel_id

(***************************************************************************)
(* Properties of createGLADBinaryMasks (SpecMasks)                         *)
(***************************************************************************)
\* the number of the three tree-cover band masks that hold
BandCount(m) ==
    (IF m.hasLowTreeCover THEN 1 ELSE 0) + (IF m.hasMediumTreeCover THEN 1 ELSE 0)
        + (IF m.hasHighTreeCover THEN 1 ELSE 0)

\* C28: for every GLAD record the masks of createGLADBinaryMasks are
\* consistent: the low (1..29), medium (30..69) and high (>= 70) tree-cover
\* masks are pairwise exclusive, hasAnyTreeCover holds iff exactly one of
\* them holds, isForested iff medium or high holds, hasAnyChange iff
\* hasForestGain or hasForestLoss holds, and the fields of the record are
\* carried over unchanged.
C28_MasksConsistent ==
    (phase = "loaded" /\ selectedDataset = "glad" /\ gladMasks # << >>) =>
        /\ Len(gladMasks) = Len(canopyData)
        /\ \A i \in DOMAIN gladMasks :
              LET m == gladMasks[i].masks
                  t == canopyData[i].baseline_tree_cover
              IN /\ BandCount(m) <= 1
                 /\ m.hasAnyTreeCover <=> BandCount(m) = 1
                 /\ m.hasLowTreeCover <=> (t.k = "num" /\ t.v \in 1..29)
                 /\ m.hasMediumTreeCover <=> (t.k = "num" /\ t.v \in 30..69)
                 /\ m.hasHighTreeCover <=> (t.k = "num" /\ t.v >= 70)
                 /\ m.isForested <=> (m.hasMediumTreeCover \/ m.hasHighTreeCover)
                 /\ m.hasAnyChange <=> (m.hasForestGain \/ m.hasForestLoss)
                 /\ \A f \in DOMAIN canopyData[i] : gladMasks[i][f] = canopyData[i][f]

\* masks of three records: tree cover 29 (low only), 70 (high only, forested)
\* and 50 with a loss year and no gain (medium, changed)
C28_Witness ==
    /\ phase = "loaded"
    /\ Len(gladMasks) = 3
    /\ canopyData[1].baseline_tree_cover = Num(29)
    /\ gladMasks[1].masks.hasLowTreeCover /\ ~gladMasks[1].masks.isForested
    /\ canopyData[2].baseline_tree_cover = Num(70)
    /\ gladMasks[2].masks.hasHighTreeCover /\ ~gladMasks[2].masks.hasMediumTreeCover
    /\ gladMasks[2].masks.isForested
    /\ gladMasks[3].masks.hasForestLoss /\ ~gladMasks[3].masks.hasForestGain
    /\ gladMasks[3].masks.hasAnyChange /\ gladMasks[3].masks.hasMediumTreeCover

(***************************************************************************)
(* Frame of the view derivation (SpecDerive)                               *)
(***************************************************************************)
DerivedFields == {"change_value", "baseline_value", "trend_slope", "trend_direction",
                  "avg_value"}

\* C29: deriving a view leaves the loaded record set unchanged: across every
\* change of mode, metric or year the loaded records keep their length,
\* order and field values, and no loaded record ever carries a change or
\* trend field.
C29_DerivationLeavesRecordsUnchanged ==
    /\ [][phase = "loaded" => canopyData' = canopyData]_vars
    /\ [](\A i \in DOMAIN canopyData : DOMAIN canopyData[i] \cap DerivedFields = {})

\* a change-from-baseline view whose entries carry the change fields, and a
\* trend view, next to loaded records without them
C29_Witness ==
    /\ phase = "loaded"
    /\ selectedDataset = "mangaroa"
    /\ visualizationMode = "change_from_baseline"
    /\ Len(canopyData) = 3
    /\ view.kind = "array"
    /\ Len(view.entries) = 2
    /\ \A i \in DOMAIN view.entries :
          /\ "change_value" \in DOMAIN view.entries[i]
          /\ view.entries[i].change_value # Num(0)
    /\ \A i \in DOMAIN canopyData : "change_value" \notin DOMAIN canopyData[i]

(***************************************************************************)
(* The selected year of MultiDatasetVisualizer (SpecSelect)                *)
(***************************************************************************)
\* C30: in MultiDatasetVisualizer, once the dataset-selection effect has run,
\* the selected year of a time-series dataset is one of its declared years
\* (2013..2024 for Mangaroa, 2017..2023 for the IO classification); the
\* effect resets the year to the last declared year of a time series and
\* leaves it unchanged for any other dataset.
C30_SelectedYearDeclared ==
    /\ []((component = "MultiDatasetVisualizer" /\ isLoaded /\ ~effectDue
                /\ selectedDataset \in {"mangaroa", "io_class"})
            => selectedYear \in (IF selectedDataset = "mangaroa" THEN 2013..2024
                                 ELSE 2017..2023))
    /\ [][(component = "MultiDatasetVisualizer" /\ effectDue /\ ~effectDue')
            => selectedYear' = (IF selectedDataset = "mangaroa" THEN 2024
                                ELSE IF selectedDataset = "io_class" THEN 2023
                                ELSE selectedYear)]_vars

\* the IO classification was selected, the slider moved to 2018, then GLAD
\* selected: the effect has run and the year is still 2018
C30_Witness ==
    /\ component = "MultiDatasetVisualizer"
    /\ isLoaded /\ ~effectDue
    /\ selectedDataset = "glad"
    /\ selectedYear = 2018
    /\ nStarted = 4
====
